---- MODULE Spec2Model ----
(***************************************************************************)
(* Chunk system of VoxelCraft Optimized: Chunk, ChunkManager (the pooled   *)
(* variant with greedy meshing and the simple variant with per-voxel       *)
(* meshing), ObjectPool, GreedyMesher, OcclusionCuller and World.          *)
(*                                                                         *)
(* JavaScript objects are modelled with identity: a chunk is an index into *)
(* the sequence heap, a THREE.Mesh an index into the sequence meshes.      *)
(* An operation that raises an exception keeps the assignments it made     *)
(* before the throw; the field thrown of the machine record says so.       *)
(***************************************************************************)
EXTENDS Integers, Sequences, FiniteSets, TLC

VARIABLES
    variant,          \* "pooled" (part_000:1-468) or "simple" (part_000:469-979)
    terrainHook,      \* window.TerrainGenerator: "absent" or "class"
    renderDistance,   \* ChunkManager.renderDistance
    heap,             \* every Chunk object ever constructed
    meshes,           \* every THREE.Mesh object ever constructed
    chunks,           \* ChunkManager.chunks, a Map in insertion order
    activeChunks,     \* ChunkManager.activeChunks, a Set in insertion order
    generationQueue,  \* ChunkManager.generationQueue
    isGenerating,     \* ChunkManager.isGenerating
    scene,            \* meshes that are children of the THREE.Scene
    pool,             \* ObjectPool.pool (free list)
    poolActive,       \* ObjectPool.active, a Set in insertion order
    occlusionMap,     \* OcclusionCuller.occlusionMap
    steps,            \* number of operations called so far
    unloaded,         \* history: ids that update() has unloaded
    requested,        \* history: chunks pushed on the generation queue, in order
    served,           \* history: chunks shifted off the generation queue, in order
    generatorRuns,    \* history: chunks on which generateChunk has completed
    game,             \* GameState and the stats of the game loop
    lastOp            \* observation of the last operation

vars == <<variant, terrainHook, renderDistance, heap, meshes, chunks,
          activeChunks, generationQueue, isGenerating, scene, pool,
          poolActive, occlusionMap, steps, unloaded, requested, served,
          generatorRuns, game, lastOp>>

----------------------------------------------------------------------------
(* Bounds of the model *)

\* edge length of a chunk (constructor argument size / chunkSize)
ChunkSize == 3

\* renderDistance given to the ChunkManager in the main specification
RenderDistance == 1

\* largest renderDistance of the window specification
MaxRenderDistance == 3

\* operations called per behaviour
MaxSteps == 3

\* operations called per behaviour where the viewer walks away from an
\* edited chunk
MaxCalls == 4

(* Program constants *)

\* vertical half-extent of the render window
VerticalLimit == 2

\* initialSize given to the chunk ObjectPool
PoolInitialSize == 20

\* initialRadius of World.generate and the vertical half-extent of its loops
InitialRadius == 2

GenerateVertical == 1

\* params.waterLevel of the TerrainGenerator
WaterLevel == 25

\* number of values of a Uint8Array element
Uint8Range == 256

\* null / undefined as an operation's argument or return value
Null == "null"

\* null where a chunk or mesh reference is expected (objects count from 1)
NoRef == 0

\* null in the fields voxels, neighbors and geometry; NoVoxels is a value no
\* voxel array takes (see NewVoxels)
NoVoxels == [i \in {-1} |-> 0]

NoLinks == <<>>

NoGeometry == <<>>

\* Infinity in the field distance
Infinity == -1

N == ChunkSize

\* BlockType.AIR, BlockType.STONE and BlockType.BEDROCK
AIR == 0

STONE == 3

GRASS == 1

DIRT == 2

SAND == 4

WATER == 5

BEDROCK == 8

----------------------------------------------------------------------------
(* JavaScript arithmetic *)

\* Math.floor(a / n) for integers a and n > 0
FloorDiv(a, n) == a \div n

\* the JavaScript remainder a % n: the sign follows the dividend
JsMod(a, n) == IF a >= 0 THEN a % n ELSE -((-a) % n)

\* the value a Uint8Array element holds after it is assigned t
ToUint8(t) == t % Uint8Range

Max(S) == CHOOSE m \in S : \A k \in S : k <= m

\* the function f with its values computed once, when it is built
Table(f) == f @@ <<>>

----------------------------------------------------------------------------
(* Faulty variants of four definitions below.  Each property proved of the *)
(* program is also shown to fail for a program that uses the variant.      *)

\* an index in which y and z share a stride: not injective
VoxelIndexSharedStride(x, y, z) == x + y * N + z * N

\* a range test that lets the coordinate N through
InRangeInclusive(x, y, z) ==
    /\ x >= 0 /\ x <= N
    /\ y >= 0 /\ y <= N
    /\ z >= 0 /\ z <= N

\* the window with the test distance < renderDistance
WindowOffsetsStrict(r) ==
    LET side == 2 * r + 1
        height == 2 * VerticalLimit + 1
        all == [i \in 1..(side * height * side) |->
                   <<((i - 1) \div (height * side)) - r,
                     (((i - 1) \div side) % height) - VerticalLimit,
                     ((i - 1) % side) - r>>]
        Inside(d) == d[1] * d[1] + d[2] * d[2] + d[3] * d[3] < r * r
    IN  SelectSeq(all, Inside)

\* an edge test that looks at the faces at coordinate 0 only
OnEdgeLow(l) == l[1] = 0 \/ l[2] = 0 \/ l[3] = 0

\* the edge test with "at most" in place of "equal to" for the high faces
OnEdgeUpTo(l) ==
    \/ l[1] = 0 \/ l[1] <= N - 1
    \/ l[2] = 0 \/ l[2] <= N - 1
    \/ l[3] = 0 \/ l[3] <= N - 1

----------------------------------------------------------------------------
(* Chunk *)

\* the keys of Chunk.neighbors in the order of the object literal
Faces == <<"left", "right", "top", "bottom", "front", "back">>

FaceSet == {Faces[i] : i \in 1..6}

NoNeighbors == [f \in FaceSet |-> NoRef]

\* A Uint8Array of size * size * size cells is kept as the map of its
\* non-zero cells: Cell reads a cell, Store writes one.
\* new Uint8Array(size * size * size): every cell is 0
NewVoxels == <<>>

\* the value undefined, where a number is expected
Undefined == -1

\* voxels[index]; undefined outside the array
Cell(voxels, index) ==
    IF index \in DOMAIN voxels THEN voxels[index]
    ELSE IF index >= 0 /\ index < N * N * N THEN 0
    ELSE Undefined

\* voxels[index] = value; a write outside the array is ignored
Store(voxels, index, value) ==
    IF index < 0 \/ index >= N * N * N THEN voxels
    ELSE IF ToUint8(value) = 0
    THEN Table([i \in DOMAIN voxels \ {index} |-> voxels[i]])
    ELSE Table([i \in DOMAIN voxels \cup {index} |->
                   IF i = index THEN ToUint8(value) ELSE voxels[i]])

\* the number of cells that are not 0
NonZeroCells(voxels) == Cardinality(DOMAIN voxels)

\* new Chunk(x, y, z, size)
NewChunk(x, y, z) ==
    [x |-> x, y |-> y, z |-> z, id |-> <<x, y, z>>,
     voxels |-> NewVoxels, mesh |-> NoRef, geometry |-> NoGeometry,
     needsUpdate |-> TRUE, isEmpty |-> TRUE,
     neighbors |-> NoNeighbors, lodLevel |-> 0, distance |-> Infinity]

InRange(x, y, z) ==
    /\ x >= 0 /\ x < N
    /\ y >= 0 /\ y < N
    /\ z >= 0 /\ z < N

\* const index = x + y * this.size + z * this.size * this.size
VoxelIndex(x, y, z) == x + y * N + z * N * N

\* Chunk.getVoxel: [ret, thrown]; reading this.voxels[index] of a disposed
\* chunk (voxels === null) is a TypeError
GetVoxel(c, x, y, z) ==
    IF ~InRange(x, y, z) THEN [ret |-> 0, thrown |-> FALSE]
    ELSE IF c.voxels = NoVoxels THEN [ret |-> Null, thrown |-> TRUE]
    ELSE [ret |-> Cell(c.voxels, VoxelIndex(x, y, z)), thrown |-> FALSE]

\* Chunk.setVoxel: [chunk, ret, thrown]
SetVoxel(c, x, y, z, type) ==
    IF ~InRange(x, y, z) THEN [chunk |-> c, ret |-> FALSE, thrown |-> FALSE]
    ELSE IF c.voxels = NoVoxels THEN [chunk |-> c, ret |-> Null, thrown |-> TRUE]
    ELSE [chunk |-> [c EXCEPT !.voxels = Store(@, VoxelIndex(x, y, z), type),
                              !.needsUpdate = TRUE,
                              !.isEmpty = IF type # 0 THEN FALSE ELSE @],
          ret |-> TRUE, thrown |-> FALSE]

----------------------------------------------------------------------------
(* Face visibility and the per-voxel mesher of the simple variant *)

\* the switch of shouldRenderFace: the cell adjacent along face
FaceDelta(face) ==
    CASE face = "left" -> <<-1, 0, 0>>
      [] face = "right" -> <<1, 0, 0>>
      [] face = "bottom" -> <<0, -1, 0>>
      [] face = "top" -> <<0, 1, 0>>
      [] face = "back" -> <<0, 0, -1>>
      [] face = "front" -> <<0, 0, 1>>

\* Chunk.getNeighborChunk / Chunk.shouldRenderFace on chunk c of heap h:
\* [ret, thrown].  this.neighbors[face] of a disposed chunk and the voxel
\* read of a disposed neighbor are TypeErrors.
ShouldRenderFace(h, c, x, y, z, face) ==
    LET d == FaceDelta(face)
        nx == x + d[1]
        ny == y + d[2]
        nz == z + d[3]
    IN  IF ~InRange(nx, ny, nz)
        THEN IF c.neighbors = NoLinks THEN [ret |-> Null, thrown |-> TRUE]
             ELSE LET nb == c.neighbors[face]
                  IN  IF nb # NoRef
                      THEN LET r == GetVoxel(h[nb], JsMod(nx + N, N),
                                             JsMod(ny + N, N), JsMod(nz + N, N))
                           IN  IF r.thrown THEN [ret |-> Null, thrown |-> TRUE]
                               ELSE [ret |-> (r.ret = 0), thrown |-> FALSE]
                      ELSE [ret |-> TRUE, thrown |-> FALSE]
        ELSE LET r == GetVoxel(c, nx, ny, nz)
             IN  IF r.thrown THEN [ret |-> Null, thrown |-> TRUE]
                 ELSE [ret |-> (r.ret = 0), thrown |-> FALSE]

\* the dir fields of the faces array of generateMesh, in its order
MeshFaces == <<"left", "right", "bottom", "top", "back", "front">>

\* the (x, y, z, face) combinations in the order the loops of the simple
\* generateMesh visit them: x outermost, then y, then z, then the faces
FaceSlots ==
    [i \in 1..(N * N * N * 6) |->
        <<((i - 1) \div (6 * N * N)) % N,
          ((i - 1) \div (6 * N)) % N,
          ((i - 1) \div 6) % N,
          MeshFaces[((i - 1) % 6) + 1]>>]

\* a face the simple generateMesh examines: the voxel is not air
SlotSolid(c, s) == Cell(c.voxels, VoxelIndex(s[1], s[2], s[3])) # 0

\* whether the loops of the simple generateMesh raise a TypeError
NaiveThrows(h, c) ==
    \/ c.voxels = NoVoxels
    \/ \E i \in DOMAIN FaceSlots :
          /\ SlotSolid(c, FaceSlots[i])
          /\ ShouldRenderFace(h, c, FaceSlots[i][1], FaceSlots[i][2],
                              FaceSlots[i][3], FaceSlots[i][4]).thrown

\* the quads the simple generateMesh pushes, one per rendered face
NaiveFaces(h, c) ==
    LET Emit(s) == /\ SlotSolid(c, s)
                   /\ ShouldRenderFace(h, c, s[1], s[2], s[3], s[4]).ret = TRUE
    IN  SelectSeq(FaceSlots, Emit)

----------------------------------------------------------------------------
(* GreedyMesher *)

\* GreedyMesher.getVoxel: voxels[index] || 0
GreedyGetVoxel(voxels, pos) ==
    LET index == pos[1] + pos[2] * N + pos[3] * N * N
        v == Cell(voxels, index)
    IN  IF v = Undefined THEN 0 ELSE v

\* the position x with x[d] = xd, x[u] = i, x[v] = j (axes are 0, 1, 2)
AxisPos(d, xd, i, j) ==
    LET u == (d + 1) % 3
        v == (d + 2) % 3
    IN  [k \in 1..3 |-> IF k = d + 1 THEN xd ELSE IF k = u + 1 THEN i ELSE j]

\* the mask with the cells beyond either end of the sweep taken as solid
ComputeMaskSolidOutside(voxels, d, xd) ==
    Table([n \in 0..(N * N - 1) |->
        LET x == AxisPos(d, xd, n % N, n \div N)
            xq == AxisPos(d, xd + 1, n % N, n \div N)
            a == IF xd >= 0 THEN GreedyGetVoxel(voxels, x) ELSE STONE
            b == IF xd < N - 1 THEN GreedyGetVoxel(voxels, xq) ELSE STONE
        IN  IF a # b THEN (IF a # 0 THEN a ELSE -b) ELSE 0])

\* a mask that is non-zero only between a solid voxel and air
ComputeMaskSolidToAir(voxels, d, xd) ==
    Table([n \in 0..(N * N - 1) |->
        LET x == AxisPos(d, xd, n % N, n \div N)
            xq == AxisPos(d, xd + 1, n % N, n \div N)
            a == IF xd >= 0 THEN GreedyGetVoxel(voxels, x) ELSE 0
            b == IF xd < N - 1 THEN GreedyGetVoxel(voxels, xq) ELSE 0
        IN  IF (a = 0) # (b = 0) THEN (IF a # 0 THEN a ELSE -b) ELSE 0])

\* the mask of the plane between x[d] = xd and xd + 1, indexed n = i + j * N
ComputeMask(voxels, d, xd) ==
    Table([n \in 0..(N * N - 1) |->
        LET x == AxisPos(d, xd, n % N, n \div N)
            xq == AxisPos(d, xd + 1, n % N, n \div N)
            a == IF xd >= 0 THEN GreedyGetVoxel(voxels, x) ELSE 0
            b == IF xd < N - 1 THEN GreedyGetVoxel(voxels, xq) ELSE 0
        IN  IF a # b THEN (IF a # 0 THEN a ELSE -b) ELSE 0])

\* the height of a rectangle that is never extended over a second row
QuadHeightOne(mask, n, w) == 1

\* the width of a rectangle that is never extended over a second cell
QuadWidthOne(mask, n) == 1

\* width of the run starting at mask cell n
QuadWidth(mask, n) ==
    Max({w \in 1..(N - (n % N)) : \A k \in 0..(w - 1) : mask[n + k] = mask[n]})

\* height of the rectangle of width w starting at mask cell n
QuadHeight(mask, n, w) ==
    Max({h \in 1..(N - (n \div N)) :
            \A l \in 0..(h - 1) : \A k \in 0..(w - 1) :
                mask[n + k + l * N] = mask[n]})

\* the scan that turns one mask into quads, from cell n on
RECURSIVE ScanMask(_, _, _, _, _)
ScanMask(mask, n, d, xd, quads) ==
    IF n >= N * N THEN quads
    ELSE IF mask[n] # 0
    THEN LET w == QuadWidth(mask, n)
             h == QuadHeight(mask, n, w)
             quad == [pos |-> AxisPos(d, xd, n % N, n \div N), w |-> w, h |-> h,
                      front |-> (mask[n] > 0), axis |-> d]
             cleared == Table([m \in DOMAIN mask |->
                            IF /\ (m % N) >= (n % N) /\ (m % N) < (n % N) + w
                               /\ (m \div N) >= (n \div N)
                               /\ (m \div N) < (n \div N) + h
                            THEN 0 ELSE mask[m]])
         IN  ScanMask(cleared, n + w, d, xd, Append(quads, quad))
    ELSE ScanMask(mask, n + 1, d, xd, quads)

\* the planes of the three sweeps in order: axis d = 0, 1, 2 and, for each,
\* x[d] = -1 .. N - 1
SweepPlanes ==
    [i \in 1..(3 * (N + 1)) |-> <<(i - 1) \div (N + 1), ((i - 1) % (N + 1)) - 1>>]

\* the quads of one plane; they are placed at x[d] + 1
PlaneQuads(voxels, d, xd) ==
    ScanMask(ComputeMask(voxels, d, xd), 0, d, xd + 1, <<>>)

\* the quads of the planes from the k-th on
RECURSIVE QuadsFrom(_, _)
QuadsFrom(voxels, k) ==
    IF k > Len(SweepPlanes) THEN <<>>
    ELSE PlaneQuads(voxels, SweepPlanes[k][1], SweepPlanes[k][2])
            \o QuadsFrom(voxels, k + 1)

\* GreedyMesher.mesh: the quads in emission order
GreedyMesh(voxels) == QuadsFrom(voxels, 1)

\* the lengths of the four arrays mesh returns: createQuad pushes 4 vertices
\* of 3 numbers, 4 normals of 3 numbers and 4 uv pairs per quad, and mesh
\* pushes 6 indices per quad
MeshData(quads) ==
    [vertices |-> 12 * Len(quads), normals |-> 12 * Len(quads),
     uvs |-> 8 * Len(quads), indices |-> 6 * Len(quads), quads |-> quads]

----------------------------------------------------------------------------
(* The machine record: the objects of one World, the pending exception and *)
(* the return value and observations of the operation being executed       *)

\* GameState.settings.maxFPS
MaxFPS == 60

\* GameState.settings.maxFPS after detectDevice() on a mobile device
MobileMaxFPS == 30

\* GameState and this.stats when the script has loaded; times are in
\* milliseconds, now is the value of performance.now(), updates and renders
\* count the calls of update() and render() made by animate()
NewGame ==
    [isRunning |-> FALSE, isPaused |-> FALSE, maxFPS |-> MaxFPS,
     lastFrameTime |-> 0, deltaTime |-> 0, now |-> 0,
     updates |-> 0, renders |-> 0]

NoObs ==
    [dequeued |-> NoRef,          \* chunk shifted off the generation queue
     dequeuedKnown |-> FALSE,    \* it was in the chunks map when shifted
     generatorReached |-> FALSE, \* the generateChunk call was evaluated
     meshReached |-> FALSE,      \* updateChunkMesh ran on the dequeued chunk
     createdIds |-> {},          \* ids for which a chunk was created
     unloadedIds |-> {},         \* ids unloadChunk removed from the map
     reacquired |-> {},          \* snapshots of chunks created for unloaded ids
     ownerDirty |-> FALSE,       \* needsUpdate of the edited chunk after setVoxel
     local |-> <<>>,             \* local coordinate computed by get/setBlockAt
     owner |-> NoRef,            \* chunk object get/setBlockAt worked on
     generatorCalls |-> 0,       \* calls of generateChunk that were evaluated
     meshed |-> {},              \* chunks whose voxels generateMesh went through
     unlinked |-> {},            \* <<chunk, face>>: at that time a known chunk
                                 \* lay across the face and was not linked
     greedy |-> {},              \* what GreedyMesher.mesh returned for the grid
     naive |-> {}]               \* the faces the per-voxel mesher pushed for it

Machine ==
    [heap |-> heap, meshes |-> meshes, chunks |-> chunks,
     activeChunks |-> activeChunks, generationQueue |-> generationQueue,
     isGenerating |-> isGenerating, scene |-> scene, pool |-> pool,
     poolActive |-> poolActive, occlusionMap |-> occlusionMap,
     unloaded |-> unloaded, requested |-> requested, served |-> served,
     generatorRuns |-> generatorRuns, game |-> game,
     outside |-> {},   \* ids of the chunks whose bounding box the frustum
                       \* culler rejects; none while frustumCuller is null
     newActive |-> <<>>,  \* the Set newActiveChunks of the running update()
     thrown |-> FALSE, ret |-> NoRef, obs |-> NoObs]

\* sequencing of statements: an exception pending in m skips the rest
Try(m, Then(_)) == IF m.thrown THEN m ELSE Then(m)

\* Map.has / Map.get / Map.set / Map.delete on an insertion-ordered map
MapHas(chs, id) == \E i \in DOMAIN chs : chs[i].id = id

MapGet(chs, id) ==
    IF MapHas(chs, id) THEN chs[CHOOSE i \in DOMAIN chs : chs[i].id = id].obj
    ELSE NoRef

MapSet(chs, id, obj) ==
    IF MapHas(chs, id)
    THEN Table([i \in DOMAIN chs |->
                   IF chs[i].id = id THEN [id |-> id, obj |-> obj] ELSE chs[i]])
    ELSE Append(chs, [id |-> id, obj |-> obj])

MapDelete(chs, id) ==
    LET Keep(e) == e.id # id IN SelectSeq(chs, Keep)

\* Set.has / Set.add on an insertion-ordered set
SetHas(st, e) == \E i \in DOMAIN st : st[i] = e

SetAdd(st, e) == IF SetHas(st, e) THEN st ELSE Append(st, e)

\* Set.delete
SetDelete(st, e) == LET Keep(x) == x # e IN SelectSeq(st, Keep)

----------------------------------------------------------------------------
(* Chunk.generateMesh and ChunkManager.updateChunkMesh *)

\* the isEmpty branch: drop the mesh, return null
MeshEmptyBranch(m, o) == [m EXCEPT !.heap[o].mesh = NoRef, !.ret = NoRef]

\* "Create or update mesh" and the assignments that follow it
InstallGeometry(m, o, geometry) ==
    LET c == m.heap[o]
        k == Len(m.meshes) + 1
    IN  IF c.mesh = NoRef
        THEN [m EXCEPT !.meshes = Append(@, [geometry |-> geometry,
                                              visible |-> TRUE]),
                       !.heap[o].mesh = k,
                       !.heap[o].geometry = geometry,
                       !.heap[o].needsUpdate = FALSE,
                       !.ret = k]
        ELSE [m EXCEPT !.meshes[c.mesh].geometry = geometry,
                       !.heap[o].geometry = geometry,
                       !.heap[o].needsUpdate = FALSE,
                       !.ret = c.mesh]

\* Chunk.generateMesh of the pooled variant (greedy meshing)
GenerateMeshGreedy(m, o) ==
    LET c == m.heap[o]
    IN  IF c.isEmpty THEN MeshEmptyBranch(m, o)
        ELSE IF c.voxels = NoVoxels THEN [m EXCEPT !.thrown = TRUE]
        ELSE LET quads == GreedyMesh(c.voxels)
             IN  IF Len(quads) > 0 THEN InstallGeometry(m, o, quads)
                 ELSE [m EXCEPT !.ret = NoRef]

\* Chunk.generateMesh of the simple variant (one quad per visible face)
GenerateMeshSimple(m, o) ==
    LET c == m.heap[o]
    IN  IF c.isEmpty THEN MeshEmptyBranch(m, o)
        ELSE IF NaiveThrows(m.heap, c) THEN [m EXCEPT !.thrown = TRUE]
        ELSE LET faces == NaiveFaces(m.heap, c)
             IN  IF Len(faces) = 0
                 THEN [m EXCEPT !.heap[o].isEmpty = TRUE, !.ret = NoRef]
                 ELSE InstallGeometry(m, o, faces)

GenerateMesh(m, o) ==
    IF variant = "pooled" THEN GenerateMeshGreedy(m, o)
    ELSE GenerateMeshSimple(m, o)

\* the faces of chunk o across which a known chunk lies that
\* o.neighbors[face] does not point to
UnlinkedFaces(m, o) ==
    LET c == m.heap[o]
    IN  {f \in FaceSet :
            LET d == FaceDelta(f)
                id == <<c.x + d[1], c.y + d[2], c.z + d[3]>>
            IN  /\ MapHas(m.chunks, id)
                /\ \/ c.neighbors = NoLinks
                   \/ c.neighbors[f] # MapGet(m.chunks, id)}

\* ChunkManager.updateChunkMesh
UpdateChunkMesh(m, o) ==
    Try(GenerateMesh(m, o), LAMBDA m1 :
        LET oldMesh == m.heap[o].mesh
            newMesh == m1.ret
            removed == IF oldMesh # NoRef /\ oldMesh # newMesh
                       THEN m1.scene \ {oldMesh} ELSE m1.scene
            added == IF newMesh # NoRef /\ newMesh # oldMesh
                     THEN removed \cup {newMesh} ELSE removed
            ran == ~m.heap[o].isEmpty
        IN  [m1 EXCEPT !.scene = added, !.ret = NoRef,
                       !.obs.meshed = IF ran THEN @ \cup {o} ELSE @,
                       !.obs.unlinked =
                           IF ran
                           THEN @ \cup {<<o, f>> : f \in UnlinkedFaces(m, o)}
                           ELSE @])

----------------------------------------------------------------------------
(* ObjectPool of chunks *)

\* the createFn of the chunk pool: new Chunk(0, 0, 0, chunkSize)
PoolCreate == NewChunk(0, 0, 0)

\* ObjectPool.acquire: ret is the object
Acquire(m) ==
    IF Len(m.pool) > 0
    THEN [m EXCEPT !.pool = SubSeq(@, 1, Len(@) - 1),
                   !.poolActive = SetAdd(@, m.pool[Len(m.pool)]),
                   !.ret = m.pool[Len(m.pool)]]
    ELSE [m EXCEPT !.heap = Append(@, PoolCreate),
                   !.poolActive = SetAdd(@, Len(m.heap) + 1),
                   !.ret = Len(m.heap) + 1]

\* the resetFn of the chunk pool; chunk.voxels.fill(0) on a disposed chunk
\* (voxels === null) is a TypeError
PoolReset(m, o) ==
    IF m.heap[o].voxels = NoVoxels THEN [m EXCEPT !.thrown = TRUE]
    ELSE [m EXCEPT !.heap[o].voxels = NewVoxels,
                   !.heap[o].needsUpdate = TRUE,
                   !.heap[o].isEmpty = TRUE,
                   !.heap[o].lodLevel = 0,
                   !.heap[o].distance = Infinity]

\* release without the active.has(obj) test
ReleaseUnchecked(m, o) ==
    Try(PoolReset(m, o), LAMBDA m1 :
        [m1 EXCEPT !.poolActive = SetDelete(@, o), !.pool = Append(@, o)])

\* ObjectPool.release
Release(m, o) ==
    IF SetHas(m.poolActive, o)
    THEN Try(PoolReset(m, o), LAMBDA m1 :
             [m1 EXCEPT !.poolActive = SetDelete(@, o), !.pool = Append(@, o)])
    ELSE m

\* the forEach of ObjectPool.releaseAll from the k-th member of active on,
\* then active.clear(); an exception of resetFn ends the forEach and skips
\* the clear
RECURSIVE ReleaseAllFrom(_, _)
ReleaseAllFrom(m, k) ==
    IF k > Len(m.poolActive) THEN [m EXCEPT !.poolActive = <<>>]
    ELSE Try(PoolReset(m, m.poolActive[k]), LAMBDA m1 :
             ReleaseAllFrom([m1 EXCEPT !.pool = Append(@, m.poolActive[k])],
                            k + 1))

\* ObjectPool.releaseAll
ReleaseAll(m) == ReleaseAllFrom(m, 1)

----------------------------------------------------------------------------
(* ChunkManager: getChunkByIndex, linkNeighbors *)

\* ChunkManager.getOppositeFace
GetOppositeFace(face) ==
    CASE face = "left" -> "right"
      [] face = "right" -> "left"
      [] face = "top" -> "bottom"
      [] face = "bottom" -> "top"
      [] face = "front" -> "back"
      [] face = "back" -> "front"

\* the key linkNeighbors looks up for a face of the chunk at (x, y, z)
NeighborId(x, y, z, face) ==
    CASE face = "left" -> <<x - 1, y, z>>
      [] face = "right" -> <<x + 1, y, z>>
      [] face = "bottom" -> <<x, y - 1, z>>
      [] face = "top" -> <<x, y + 1, z>>
      [] face = "back" -> <<x, y, z - 1>>
      [] face = "front" -> <<x, y, z + 1>>

\* the forEach of linkNeighbors from entry k on: neighbor.neighbors[opposite]
\* = chunk; a neighbor whose neighbors field is null raises a TypeError.
\* entries is Object.entries(chunk.neighbors): the pairs are read once,
\* before the forEach writes anything
RECURSIVE LinkBack(_, _, _, _)
LinkBack(m, o, entries, k) ==
    IF k > Len(Faces) THEN m
    ELSE LET face == Faces[k]
             nb == entries[face]
         IN  IF nb = NoRef THEN LinkBack(m, o, entries, k + 1)
             ELSE IF m.heap[nb].neighbors = NoLinks THEN [m EXCEPT !.thrown = TRUE]
             ELSE LinkBack([m EXCEPT !.heap[nb].neighbors[GetOppositeFace(face)] = o],
                           o, entries, k + 1)

\* linkNeighbors without the forEach that writes neighbor.neighbors[opposite]
LinkNeighborsOneWay(m, o) ==
    LET c == m.heap[o]
    IN  IF c.neighbors = NoLinks THEN [m EXCEPT !.thrown = TRUE]
        ELSE [m EXCEPT !.heap[o].neighbors =
                 Table([f \in FaceSet |->
                     MapGet(m.chunks, NeighborId(c.x, c.y, c.z, f))])]

\* ChunkManager.linkNeighbors
LinkNeighbors(m, o) ==
    LET c == m.heap[o]
        links == Table([f \in FaceSet |->
                     MapGet(m.chunks, NeighborId(c.x, c.y, c.z, f))])
    IN  IF c.neighbors = NoLinks THEN [m EXCEPT !.thrown = TRUE]
        ELSE LinkBack([m EXCEPT !.heap[o].neighbors = links], o, links, 1)

AllAir(c) == c.voxels # NoVoxels /\ NonZeroCells(c.voxels) = 0

\* what the caller of getChunkByIndex sees of a chunk created for an id that
\* was unloaded before
Snapshot(c) ==
    [id |-> c.id, allAir |-> AllAir(c), isEmpty |-> c.isEmpty,
     needsUpdate |-> c.needsUpdate]

\* the creation branch of getChunkByIndex, once the chunk object o is there:
\* ret is the chunk
RegisterChunk(m, o, id) ==
    Try(LinkNeighbors([m EXCEPT !.chunks = MapSet(@, id, o),
                                !.obs.createdIds = @ \cup {id}], o),
        LAMBDA m2 :
            [m2 EXCEPT !.generationQueue = Append(@, o),
                       !.requested = Append(@, o),
                       !.obs.reacquired =
                           IF id \in m.unloaded
                           THEN @ \cup {Snapshot(m2.heap[o])} ELSE @,
                       !.ret = o])

\* ChunkManager.getChunkByIndex of the pooled variant: ret is the chunk
GetChunkByIndexPooled(m, x, y, z) ==
    IF ~MapHas(m.chunks, <<x, y, z>>)
    THEN Try(Acquire(m), LAMBDA m1 :
             RegisterChunk([m1 EXCEPT !.heap[m1.ret].x = x,
                                      !.heap[m1.ret].y = y,
                                      !.heap[m1.ret].z = z,
                                      !.heap[m1.ret].id = <<x, y, z>>],
                           m1.ret, <<x, y, z>>))
    ELSE [m EXCEPT !.ret = MapGet(m.chunks, <<x, y, z>>)]

\* ChunkManager.getChunkByIndex of the simple variant: ret is the chunk
GetChunkByIndexSimple(m, x, y, z) ==
    IF ~MapHas(m.chunks, <<x, y, z>>)
    THEN RegisterChunk([m EXCEPT !.heap = Append(@, NewChunk(x, y, z))],
                       Len(m.heap) + 1, <<x, y, z>>)
    ELSE [m EXCEPT !.ret = MapGet(m.chunks, <<x, y, z>>)]

\* getChunkByIndex without the chunks.has(id) test: a chunk is created on
\* every call
GetChunkByIndexUnchecked(m, x, y, z) ==
    RegisterChunk([m EXCEPT !.heap = Append(@, NewChunk(x, y, z))],
                  Len(m.heap) + 1, <<x, y, z>>)

GetChunkByIndex(m, x, y, z) ==
    IF variant = "pooled" THEN GetChunkByIndexPooled(m, x, y, z)
    ELSE GetChunkByIndexSimple(m, x, y, z)

\* ChunkManager.getChunk
GetChunk(m, worldX, worldY, worldZ) ==
    GetChunkByIndex(m, FloorDiv(worldX, N), FloorDiv(worldY, N),
                    FloorDiv(worldZ, N))

----------------------------------------------------------------------------
(* Chunk.updateLOD.  The field distance holds 4 * distance^2, which orders *)
(* as the distance does and is an integer for integer camera positions     *)
(* (the chunk centre has half-integer coordinates when the size is odd);   *)
(* Infinity is kept apart as a value no distance takes.                    *)

\* thresholds of the simple variant
LodNear == 50

LodFar == 100

\* distances of LODSystem.levels[1..3]
LodHalf == 32

LodQuarter == 64

LodMinimal == 128

Sq4(d) == 4 * d * d

\* this.center.distanceTo(cameraPosition), as 4 * distance^2
Distance4(c, p) ==
    LET dx == (2 * c.x + 1) * N - 2 * p[1]
        dy == (2 * c.y + 1) * N - 2 * p[2]
        dz == (2 * c.z + 1) * N - 2 * p[3]
    IN  dx * dx + dy * dy + dz * dz

\* distance > 100 ? 2 : (distance > 50 ? 1 : 0)
LodLevelSimple(d4) ==
    IF d4 > Sq4(LodFar) THEN 2 ELSE IF d4 > Sq4(LodNear) THEN 1 ELSE 0

\* Math.floor(1 / lodSystem.getDetailLevel(distance)): details 0.1, 0.25,
\* 0.5 and 1.0
LodLevelPooled(d4) ==
    IF d4 >= Sq4(LodMinimal) THEN 10
    ELSE IF d4 >= Sq4(LodQuarter) THEN 4
    ELSE IF d4 >= Sq4(LodHalf) THEN 2
    ELSE 1

\* updateLOD with needsUpdate = true outside the comparison of the tiers
UpdateLODAlwaysDirty(c, p) ==
    LET d4 == Distance4(c, p)
        newLodLevel == IF variant = "pooled" THEN LodLevelPooled(d4)
                       ELSE LodLevelSimple(d4)
    IN  [c EXCEPT !.distance = d4, !.lodLevel = newLodLevel,
                  !.needsUpdate = TRUE]

\* Chunk.updateLOD applied to the chunk record c
UpdateLOD(c, p) ==
    LET d4 == Distance4(c, p)
        newLodLevel == IF variant = "pooled" THEN LodLevelPooled(d4)
                       ELSE LodLevelSimple(d4)
    IN  IF newLodLevel # c.lodLevel
        THEN [c EXCEPT !.distance = d4, !.lodLevel = newLodLevel,
                       !.needsUpdate = TRUE]
        ELSE [c EXCEPT !.distance = d4]

----------------------------------------------------------------------------
(* TerrainGenerator.  generateChunk takes the height of each world column  *)
(* from getHeightAt and the cave test of each world cell from noise3D;     *)
(* both are passed to it here as heightAt and caves.                       *)

\* getHeightAt(worldX, worldZ) of the generator a World constructs, by world
\* column.  The seed is Date.now(), an integer, and the shuffle of
\* SimplexNoise starts from seed * 256 modulo 256, which is 0 for every
\* integer: the permutation, and with it the height field, is the same in
\* every run.  The rows are the columns worldX = -8..11, the entries of a row
\* worldZ = -8..11, the values Math.floor of the four-octave noise sum; the
\* field is cut to the columns World.generate reaches.
SurfaceHeights ==
    LET span == (-InitialRadius * N)..((InitialRadius + 1) * N - 1)
        rows ==
        <<
          <<33, 33, 32, 32, 32, 32, 31, 31, 31, 31, 30, 30, 30, 30, 30, 30, 30, 30, 30, 30>>,
          <<33, 33, 33, 32, 32, 32, 31, 31, 31, 31, 30, 30, 30, 30, 30, 30, 30, 30, 30, 30>>,
          <<33, 33, 33, 32, 32, 32, 32, 31, 31, 31, 30, 30, 30, 30, 30, 30, 30, 30, 30, 30>>,
          <<34, 33, 33, 33, 32, 32, 32, 31, 31, 31, 31, 30, 30, 30, 30, 30, 30, 30, 30, 30>>,
          <<34, 33, 33, 33, 33, 32, 32, 32, 31, 31, 31, 30, 30, 30, 30, 30, 30, 30, 30, 30>>,
          <<34, 33, 33, 33, 33, 32, 32, 32, 31, 31, 31, 30, 30, 30, 30, 30, 30, 30, 30, 29>>,
          <<34, 34, 33, 33, 33, 32, 32, 32, 31, 31, 31, 30, 30, 30, 30, 30, 30, 30, 29, 29>>,
          <<34, 33, 33, 33, 33, 32, 32, 32, 31, 31, 31, 31, 30, 30, 30, 30, 30, 29, 29, 29>>,
          <<34, 33, 33, 33, 33, 32, 32, 32, 32, 31, 31, 31, 30, 30, 30, 30, 29, 29, 29, 29>>,
          <<33, 33, 33, 33, 33, 32, 32, 32, 32, 31, 31, 30, 30, 30, 30, 30, 29, 29, 29, 29>>,
          <<33, 33, 33, 33, 33, 32, 32, 32, 32, 31, 31, 31, 30, 30, 30, 29, 29, 29, 29, 29>>,
          <<33, 33, 33, 33, 33, 32, 32, 32, 32, 31, 31, 31, 30, 30, 30, 29, 29, 29, 29, 29>>,
          <<33, 33, 33, 33, 33, 32, 32, 32, 32, 31, 31, 31, 30, 30, 30, 30, 29, 29, 29, 29>>,
          <<33, 33, 33, 33, 32, 32, 32, 32, 32, 31, 31, 31, 30, 30, 30, 30, 29, 29, 29, 29>>,
          <<33, 33, 33, 32, 32, 32, 32, 32, 32, 31, 31, 31, 31, 30, 30, 30, 30, 29, 29, 29>>,
          <<33, 33, 32, 32, 32, 32, 32, 32, 32, 31, 31, 31, 31, 30, 30, 30, 30, 29, 29, 29>>,
          <<33, 32, 32, 32, 32, 32, 32, 32, 32, 31, 31, 31, 31, 31, 30, 30, 30, 30, 29, 29>>,
          <<32, 32, 32, 32, 32, 32, 32, 32, 32, 31, 31, 31, 31, 31, 31, 30, 30, 30, 30, 29>>,
          <<32, 32, 32, 32, 32, 32, 32, 32, 32, 31, 31, 31, 31, 31, 31, 31, 30, 30, 30, 30>>,
          <<32, 32, 32, 32, 32, 32, 32, 32, 32, 31, 31, 31, 31, 31, 31, 31, 31, 30, 30, 30>>
        >>
    IN  {[col \in span \X span |-> rows[col[1] + 9][col[2] + 9]]}

\* the block type generateChunk chooses for a cell at height worldY of a
\* column whose surface is at h
TerrainBlock(worldY, h, cave) ==
    LET blockType ==
            IF worldY < h - 3 THEN STONE
            ELSE IF worldY < h THEN DIRT
            ELSE IF worldY = h
            THEN (IF worldY < WaterLevel THEN SAND ELSE GRASS)
            ELSE IF worldY <= WaterLevel THEN WATER
            ELSE AIR
    IN  IF blockType # AIR /\ blockType # WATER /\ cave THEN AIR
        ELSE blockType

\* the cells generateChunk passes to setVoxel, by their index
\* x + y * size + z * size * size, with their block types
\* heightAt is getHeightAt by world column, caves the world cells whose cave
\* noise is above the threshold
TerrainCells(c, heightAt, caves) ==
    LET WorldCell(i) == <<c.x * N + (i % N), c.y * N + ((i \div N) % N),
                          c.z * N + (i \div (N * N))>>
        Block(i) == LET w == WorldCell(i)
                    IN  TerrainBlock(w[2], heightAt[<<w[1], w[3]>>],
                                     w \in caves)
    IN  Table([i \in {j \in 0..(N * N * N - 1) : Block(j) # AIR} |->
                  Block(i)])

\* TerrainGenerator.generateChunk(chunk); setVoxel on a disposed chunk is a
\* TypeError
GenerateChunk(m, o, heightAt, caves) ==
    LET c == m.heap[o]
        cells == TerrainCells(c, heightAt, caves)
    IN  IF DOMAIN cells # {} /\ c.voxels = NoVoxels
        THEN [m EXCEPT !.thrown = TRUE]
        ELSE [m EXCEPT !.heap[o].voxels =
                           Table([i \in DOMAIN c.voxels \cup DOMAIN cells |->
                                     IF i \in DOMAIN cells THEN cells[i]
                                     ELSE c.voxels[i]]),
                       !.heap[o].isEmpty = (DOMAIN cells = {}),
                       !.heap[o].needsUpdate = TRUE,
                       !.generatorRuns = Append(@, o)]

\* TerrainGenerator.generateDecorations(chunk), called for chunks with y = 0:
\* its loops run x and z from 2 while below size - 2, not at all in a chunk
\* of size 4 or less; and a tree is placed only where the surface lies
\* inside the chunk, while heightAt is 28 or more on every column
GenerateDecorations(m, o, heightAt) == m

----------------------------------------------------------------------------
(* ChunkManager: unloadChunk, processGenerationQueue, occlusion, update *)

\* Chunk.dispose
Dispose(m, o) ==
    [m EXCEPT !.heap[o].mesh = NoRef, !.heap[o].voxels = NoVoxels,
              !.heap[o].neighbors = NoLinks]

\* ChunkManager.dispose: every chunk of the map has its mesh taken out of
\* the scene and is disposed; then the map, the active set and the generation
\* queue are emptied.  The pool is not told.
ManagerDispose(m) ==
    LET objs == {m.chunks[i].obj : i \in DOMAIN m.chunks}
    IN  [m EXCEPT !.scene = @ \ {m.heap[o].mesh : o \in objs},
                  !.heap = Table([i \in DOMAIN m.heap |->
                                     IF i \in objs THEN Dispose(m, i).heap[i]
                                     ELSE m.heap[i]]),
                  !.chunks = <<>>,
                  !.activeChunks = <<>>,
                  !.generationQueue = <<>>,
                  !.ret = NoRef]

\* ChunkManager.unloadChunk
UnloadChunk(m, id) ==
    LET o == MapGet(m.chunks, id)
    IN  IF o = NoRef THEN m
        ELSE LET m1 == IF m.heap[o].mesh # NoRef
                       THEN [m EXCEPT !.scene = @ \ {m.heap[o].mesh}] ELSE m
                 m2 == Dispose(m1, o)
                 m3 == [m2 EXCEPT !.chunks = MapDelete(@, id),
                                  !.unloaded = @ \cup {id},
                                  !.obs.unloadedIds = @ \cup {id}]
             IN  IF variant = "pooled" THEN Release(m3, o) ELSE m3

\* processGenerationQueue with a second shift(): two chunks leave the queue
ProcessGenerationQueueShiftTwo(m) ==
    IF m.isGenerating \/ Len(m.generationQueue) = 0 THEN m
    ELSE LET o == Head(m.generationQueue)
             rest == Tail(m.generationQueue)
         IN  [m EXCEPT !.generationQueue =
                           IF Len(rest) = 0 THEN rest ELSE Tail(rest),
                       !.served = IF Len(rest) = 0 THEN Append(@, o)
                                  ELSE Append(Append(@, o), Head(rest)),
                       !.obs.dequeued = o,
                       !.obs.dequeuedKnown = (MapGet(m.chunks, m.heap[o].id) = o)]

\* processGenerationQueue with pop() in place of shift(): the newest chunk
\* leaves the queue
ProcessGenerationQueuePop(m) ==
    IF m.isGenerating \/ Len(m.generationQueue) = 0 THEN m
    ELSE LET o == m.generationQueue[Len(m.generationQueue)]
         IN  [m EXCEPT !.generationQueue = SubSeq(@, 1, Len(@) - 1),
                       !.served = Append(@, o),
                       !.obs.dequeued = o,
                       !.obs.dequeuedKnown = (MapGet(m.chunks, m.heap[o].id) = o)]

\* processGenerationQueue without the test of window.TerrainGenerator: the
\* call of generateChunk on undefined is a TypeError
ProcessGenerationQueueUnguarded(m) ==
    IF m.isGenerating \/ Len(m.generationQueue) = 0 THEN m
    ELSE LET o == Head(m.generationQueue)
         IN  [m EXCEPT !.isGenerating = TRUE,
                       !.generationQueue = Tail(@),
                       !.served = Append(@, o),
                       !.obs.dequeued = o,
                       !.obs.dequeuedKnown = (MapGet(m.chunks, m.heap[o].id) = o),
                       !.obs.generatorReached = TRUE,
                       !.obs.generatorCalls = @ + 1,
                       !.thrown = TRUE]

\* ChunkManager.processGenerationQueue.  window.TerrainGenerator is either
\* undefined or the class TerrainGenerator, which has no static generateChunk:
\* calling it is a TypeError.
ProcessGenerationQueue(m) ==
    IF m.isGenerating \/ Len(m.generationQueue) = 0 THEN m
    ELSE LET o == Head(m.generationQueue)
             m1 == [m EXCEPT !.isGenerating = TRUE,
                             !.generationQueue = Tail(@),
                             !.served = Append(@, o),
                             !.obs.dequeued = o,
                             !.obs.dequeuedKnown =
                                 (MapGet(m.chunks, m.heap[o].id) = o)]
         IN  IF terrainHook = "class"
             THEN [m1 EXCEPT !.obs.generatorReached = TRUE,
                             !.obs.generatorCalls = @ + 1, !.thrown = TRUE]
             ELSE Try(UpdateChunkMesh([m1 EXCEPT !.obs.meshReached = TRUE], o),
                      LAMBDA m2 : [m2 EXCEPT !.isGenerating = FALSE])

\* the chunks update() hands to updateOcclusion, in Map order
VisibleChunks(m) ==
    LET Near(e) == /\ m.heap[e.obj].mesh # NoRef
                   /\ m.heap[e.obj].distance # Infinity
                   /\ m.heap[e.obj].distance <= Sq4(renderDistance * N)
    IN  SelectSeq(m.chunks, Near)

\* OcclusionCuller.isChunkOccluded reaches this.raycast.intersectBox for the
\* first entry that is not the target object (chunk === targetChunk) and is
\* not empty; a THREE.Raycaster has no such method, so the call is a
\* TypeError.  With no such entry it returns false.
OcclusionThrows(m, list, k) ==
    \E j \in DOMAIN list :
        list[j].obj # list[k].obj /\ ~m.heap[list[j].obj].isEmpty

\* one iteration of the forEach of OcclusionCuller.updateOcclusion
OcclusionStep(m, list, k) ==
    LET c == m.heap[list[k].obj]
        Put(v) == Table([i \in DOMAIN m.occlusionMap \cup {c.id} |->
                            IF i = c.id THEN v ELSE m.occlusionMap[i]])
    IN  IF c.isEmpty THEN [m EXCEPT !.occlusionMap = Put(FALSE)]
        ELSE IF OcclusionThrows(m, list, k) THEN [m EXCEPT !.thrown = TRUE]
        ELSE [m EXCEPT !.occlusionMap = Put(TRUE)]

\* the iterations lo..hi of that forEach, in order; an exception ends it
RECURSIVE OcclusionLoop(_, _, _, _)
OcclusionLoop(m, list, lo, hi) ==
    IF m.thrown \/ lo > hi THEN m
    ELSE IF lo = hi THEN OcclusionStep(m, list, lo)
    ELSE OcclusionLoop(OcclusionLoop(m, list, lo, (lo + hi) \div 2),
                       list, ((lo + hi) \div 2) + 1, hi)

\* OcclusionCuller.updateOcclusion
UpdateOcclusion(m, list) ==
    OcclusionLoop([m EXCEPT !.occlusionMap = <<>>], list, 1, Len(list))

\* OcclusionCuller.isVisible
OcclusionIsVisible(map, id) == ~(id \in DOMAIN map /\ map[id] = FALSE)

\* the offsets the three nested loops of update() pass to getChunkByIndex,
\* in loop order; Math.sqrt(s) <= r is s <= r * r for integers
WindowOffsets(r) ==
    LET side == 2 * r + 1
        height == 2 * VerticalLimit + 1
        all == [i \in 1..(side * height * side) |->
                   <<((i - 1) \div (height * side)) - r,
                     (((i - 1) \div side) % height) - VerticalLimit,
                     ((i - 1) % side) - r>>]
        Inside(d) == d[1] * d[1] + d[2] * d[2] + d[3] * d[3] <= r * r
    IN  SelectSeq(all, Inside)

\* the body of the innermost loop of update() for the chunk o it got
UpdateChunk(m, o, p) ==
    LET c == UpdateLOD(m.heap[o], p)
    IN  Try(IF c.needsUpdate THEN UpdateChunkMesh([m EXCEPT !.heap[o] = c], o)
            ELSE [m EXCEPT !.heap[o] = c],
            LAMBDA m2 :
                LET mesh == m2.heap[o].mesh
                    isVisible == c.id \notin m.outside
                    isOccluded == ~OcclusionIsVisible(m2.occlusionMap, c.id)
                IN  IF mesh = NoRef THEN m2
                    ELSE IF variant = "pooled"
                    THEN [m2 EXCEPT !.meshes[mesh].visible =
                                        (isVisible /\ ~isOccluded)]
                    ELSE [m2 EXCEPT !.meshes[mesh].visible = TRUE])

\* newActiveChunks.add(chunk.id): the Set of update() takes the id the chunk
\* object o has when the iteration visits it, once
NewActiveChunks(m, o) == [m EXCEPT !.newActive = SetAdd(@, m.heap[o].id)]

\* one iteration of the nested loops of update(), for the offset off
LoadStep(m, p, off) ==
    Try(GetChunkByIndex(m, FloorDiv(p[1], N) + off[1],
                        FloorDiv(p[2], N) + off[2],
                        FloorDiv(p[3], N) + off[3]),
        LAMBDA m1 : UpdateChunk(NewActiveChunks(m1, m1.ret), m1.ret, p))

\* the iterations lo..hi of the nested loops of update(), in order; an
\* exception ends them
RECURSIVE LoadLoop(_, _, _, _, _)
LoadLoop(m, p, offs, lo, hi) ==
    IF m.thrown \/ lo > hi THEN m
    ELSE IF lo = hi THEN LoadStep(m, p, offs[lo])
    ELSE LoadLoop(LoadLoop(m, p, offs, lo, (lo + hi) \div 2),
                  p, offs, ((lo + hi) \div 2) + 1, hi)

\* the iterations lo..hi of the forEach over activeChunks, in order: a chunk
\* that is not in newActive is unloaded; an exception ends them
RECURSIVE UnloadLoop(_, _, _, _)
UnloadLoop(m, newActive, lo, hi) ==
    IF m.thrown \/ lo > hi THEN m
    ELSE IF lo = hi
    THEN IF ~SetHas(newActive, m.activeChunks[lo])
         THEN UnloadChunk(m, m.activeChunks[lo]) ELSE m
    ELSE UnloadLoop(UnloadLoop(m, newActive, lo, (lo + hi) \div 2),
                    newActive, ((lo + hi) \div 2) + 1, hi)

\* ChunkManager.update(cameraPosition, camera); frustumCuller is null, as
\* initFrustumCuller is never called
UpdateManager(m, p) ==
    LET offs == WindowOffsets(renderDistance)
    IN  Try(ProcessGenerationQueue(m), LAMBDA m1 :
        Try(LoadLoop([m1 EXCEPT !.newActive = <<>>], p, offs, 1, Len(offs)),
            LAMBDA m2 :
            LET newActive == m2.newActive
            IN  Try(UnloadLoop(m2, newActive, 1, Len(m2.activeChunks)),
                    LAMBDA m3 :
                        LET m4 == [m3 EXCEPT !.activeChunks = newActive,
                                             !.ret = NoRef]
                        IN  IF variant = "pooled"
                            THEN UpdateOcclusion(m4, VisibleChunks(m4))
                            ELSE m4)))

----------------------------------------------------------------------------
(* World: getBlockAt, setBlockAt *)

\* Math.floor(world) % chunk.size, per coordinate
LocalOf(w) == <<JsMod(w[1], N), JsMod(w[2], N), JsMod(w[3], N)>>

\* the edge test of setBlockAt
OnEdge(l) ==
    \/ l[1] = 0 \/ l[1] = N - 1
    \/ l[2] = 0 \/ l[2] = N - 1
    \/ l[3] = 0 \/ l[3] = N - 1

\* Object.values(chunk.neighbors).forEach: every linked neighbor gets
\* needsUpdate = true
MarkNeighbors(m, o) ==
    LET nbs == {m.heap[o].neighbors[f] : f \in FaceSet} \ {NoRef}
    IN  [m EXCEPT !.heap = Table([i \in DOMAIN m.heap |->
                                     IF i \in nbs
                                     THEN [m.heap[i] EXCEPT !.needsUpdate = TRUE]
                                     ELSE m.heap[i]])]

\* World.getBlockAt: ret is the block type
WorldGetBlockAt(m, w) ==
    Try(GetChunk(m, w[1], w[2], w[3]), LAMBDA m1 :
        LET o == m1.ret
            l == LocalOf(w)
            r == GetVoxel(m1.heap[o], l[1], l[2], l[3])
        IN  [m1 EXCEPT !.ret = r.ret, !.thrown = r.thrown,
                       !.obs.local = l, !.obs.owner = o])

\* World.setBlockAt: ret is success
WorldSetBlockAt(m, w, blockType) ==
    Try(GetChunk(m, w[1], w[2], w[3]), LAMBDA m1 :
        LET o == m1.ret
            l == LocalOf(w)
            r == SetVoxel(m1.heap[o], l[1], l[2], l[3], blockType)
            m2 == [m1 EXCEPT !.heap[o] = r.chunk, !.obs.local = l,
                             !.obs.owner = o,
                             !.obs.ownerDirty = r.chunk.needsUpdate]
        IN  IF r.thrown THEN [m2 EXCEPT !.thrown = TRUE]
            ELSE IF r.ret # TRUE THEN [m2 EXCEPT !.ret = FALSE]
            ELSE Try(UpdateChunkMesh(m2, o), LAMBDA m3 :
                     [(IF OnEdge(l) THEN MarkNeighbors(m3, o) ELSE m3)
                         EXCEPT !.ret = TRUE]))

\* the offsets of the three nested loops of World.generate, in loop order
GenerateOffsets ==
    LET side == 2 * InitialRadius + 1
        height == 2 * GenerateVertical + 1
    IN  [i \in 1..(side * height * side) |->
            <<((i - 1) \div (height * side)) - InitialRadius,
              (((i - 1) \div side) % height) - GenerateVertical,
              ((i - 1) % side) - InitialRadius>>]

\* one iteration of the loops of World.generate
GenerateStep(m, off, heightAt, caves) ==
    Try(GetChunkByIndex(m, off[1], off[2], off[3]), LAMBDA m1 :
        Try(GenerateChunk(m1, m1.ret, heightAt, caves), LAMBDA m2 :
            IF off[2] = 0 THEN GenerateDecorations(m2, m1.ret, heightAt)
            ELSE m2))

\* the iterations lo..hi of the loops of World.generate, in order
RECURSIVE GenerateLoop(_, _, _, _, _)
GenerateLoop(m, heightAt, caves, lo, hi) ==
    IF m.thrown \/ lo > hi THEN m
    ELSE IF lo = hi THEN GenerateStep(m, GenerateOffsets[lo], heightAt, caves)
    ELSE GenerateLoop(GenerateLoop(m, heightAt, caves, lo, (lo + hi) \div 2),
                      heightAt, caves, ((lo + hi) \div 2) + 1, hi)

\* World.generate
WorldGenerate(m, heightAt, caves) ==
    Try(GenerateLoop(m, heightAt, caves, 1, Len(GenerateOffsets)), LAMBDA m1 :
        [m1 EXCEPT !.ret = NoRef])

----------------------------------------------------------------------------
(* Inputs of the operations *)

\* camera positions: inside chunk (0,0,0) and inside chunk (1,0,0)
ViewerPositions == {<<1, 1, 1>>, <<N + 1, 1, 1>>}

\* edited world positions: on the right face of chunk (0,0,0) and strictly
\* inside chunk (1,0,0), the chunk across that face
EditPositions == {<<N - 1, 1, 1>>, <<N + 1, 1, 1>>}

EditTypes == {AIR, STONE}

----------------------------------------------------------------------------
(* The state machine *)

\* the state after new World(scene): ChunkManager constructed, the pooled
\* variant with its pool pre-populated
InitManager ==
    /\ variant \in {"pooled", "simple"}
    /\ terrainHook \in {"absent", "class"}
    /\ heap = IF variant = "pooled" THEN [i \in 1..PoolInitialSize |-> PoolCreate]
              ELSE <<>>
    /\ pool = IF variant = "pooled" THEN [i \in 1..PoolInitialSize |-> i]
              ELSE <<>>
    /\ poolActive = <<>>
    /\ meshes = <<>>
    /\ chunks = <<>>
    /\ activeChunks = <<>>
    /\ generationQueue = <<>>
    /\ isGenerating = FALSE
    /\ scene = {}
    /\ occlusionMap = <<>>
    /\ steps = 0
    /\ unloaded = {}
    /\ requested = <<>>
    /\ served = <<>>
    /\ generatorRuns = <<>>
    /\ game = NewGame
    /\ lastOp = [op |-> "init", arg |-> Null, ret |-> Null, thrown |-> FALSE,
                 obs |-> NoObs]

Init ==
    /\ InitManager
    /\ renderDistance = RenderDistance

\* the machine record r becomes the next state
Commit(r, op, arg) ==
    /\ heap' = r.heap
    /\ meshes' = r.meshes
    /\ chunks' = r.chunks
    /\ activeChunks' = r.activeChunks
    /\ generationQueue' = r.generationQueue
    /\ isGenerating' = r.isGenerating
    /\ scene' = r.scene
    /\ pool' = r.pool
    /\ poolActive' = r.poolActive
    /\ occlusionMap' = r.occlusionMap
    /\ unloaded' = r.unloaded
    /\ requested' = r.requested
    /\ served' = r.served
    /\ generatorRuns' = r.generatorRuns
    /\ game' = r.game
    /\ lastOp' = [op |-> op, arg |-> arg,
                  ret |-> IF r.thrown THEN Null ELSE r.ret,
                  thrown |-> r.thrown, obs |-> r.obs]
    /\ UNCHANGED <<variant, terrainHook, renderDistance>>

\* World.update(cameraPosition) -> ChunkManager.update
Update(p) ==
    /\ steps < MaxSteps
    /\ steps' = steps + 1
    /\ Commit(UpdateManager(Machine, p), "update", p)

\* a call of processGenerationQueue on its own
ProcessQueue ==
    /\ steps < MaxSteps
    /\ steps' = steps + 1
    /\ Commit(ProcessGenerationQueue(Machine), "processGenerationQueue", Null)

\* a call of getChunkByIndex on its own
GetChunkByIndexCall(c) ==
    /\ steps < MaxSteps
    /\ steps' = steps + 1
    /\ Commit(GetChunkByIndex(Machine, c[1], c[2], c[3]), "getChunkByIndex", c)

\* World.getBlockAt; the script that defines World also installs
\* window.TerrainGenerator
GetBlockAt(w) ==
    /\ terrainHook = "class"
    /\ steps < MaxSteps
    /\ steps' = steps + 1
    /\ Commit(WorldGetBlockAt(Machine, w), "getBlockAt", w)

\* World.setBlockAt
SetBlockAt(w, t) ==
    /\ terrainHook = "class"
    /\ steps < MaxSteps
    /\ steps' = steps + 1
    /\ Commit(WorldSetBlockAt(Machine, w, t), "setBlockAt", <<w, t>>)

\* ChunkManager.dispose on its own, or through World.dispose, whose other
\* call, BlockManager.dispose, frees materials and geometries only
DisposeCall ==
    /\ steps < MaxSteps
    /\ steps' = steps + 1
    /\ Commit(ManagerDispose(Machine), "dispose", Null)

\* getChunkByIndex is asked for chunk (0,0,0) directly; getBlockAt reads a
\* position in a chunk far above the window
Next ==
    \/ \E p \in ViewerPositions : Update(p)
    \/ ProcessQueue
    \/ \E c \in {<<0, 0, 0>>} : GetChunkByIndexCall(c)
    \/ \E w \in {<<1, 3 * N + 1, 1>>} : GetBlockAt(w)
    \/ \E w \in EditPositions, t \in EditTypes : SetBlockAt(w, t)
    \/ DisposeCall

Spec == Init /\ [][Next]_vars

----------------------------------------------------------------------------
(* One chunk on its own: getVoxel and setVoxel called on a Chunk that is   *)
(* new, or has one voxel set, and has or has not been meshed               *)

\* a component of a local coordinate: in range, or one step out of range
CoordRange == (-1)..N

VoxelTypes == {AIR, STONE, BEDROCK}

\* the objects of a program that has constructed nothing
EmptyMachine ==
    [heap |-> <<>>, meshes |-> <<>>, chunks |-> <<>>, activeChunks |-> <<>>,
     generationQueue |-> <<>>, isGenerating |-> FALSE, scene |-> {},
     pool |-> <<>>, poolActive |-> <<>>, occlusionMap |-> <<>>, unloaded |-> {},
     requested |-> <<>>, served |-> <<>>, generatorRuns |-> <<>>,
     game |-> NewGame, outside |-> {}, newActive |-> <<>>, thrown |-> FALSE, ret |-> NoRef, obs |-> NoObs]

\* new Chunk(0, 0, 0, size), then setVoxel(.., STONE) on the cells of fill,
\* then generateMesh() if meshed
ChunkAlone(fill, meshed) ==
    LET c0 == NewChunk(0, 0, 0)
        c1 == IF Len(fill) = 0 THEN c0
              ELSE SetVoxel(c0, fill[1][1], fill[1][2], fill[1][3], STONE).chunk
        m0 == [EmptyMachine EXCEPT !.heap = <<c1>>]
    IN  IF meshed THEN GenerateMesh(m0, 1) ELSE m0

\* one chunk in no manager; the voxels set before the call: none, the first
\* cell or the last cell
InitChunk ==
    /\ variant \in {"pooled", "simple"}
    /\ terrainHook = "absent"
    /\ renderDistance = RenderDistance
    /\ \E fill \in {<<>>, <<(<<0, 0, 0>>)>>, <<(<<N - 1, N - 1, N - 1>>)>>},
          meshed \in BOOLEAN :
          /\ heap = ChunkAlone(fill, meshed).heap
          /\ meshes = ChunkAlone(fill, meshed).meshes
    /\ chunks = <<>>
    /\ activeChunks = <<>>
    /\ generationQueue = <<>>
    /\ isGenerating = FALSE
    /\ scene = {}
    /\ pool = <<>>
    /\ poolActive = <<>>
    /\ occlusionMap = <<>>
    /\ steps = 0
    /\ unloaded = {}
    /\ requested = <<>>
    /\ served = <<>>
    /\ generatorRuns = <<>>
    /\ game = NewGame
    /\ lastOp = [op |-> "init", arg |-> Null, ret |-> Null, thrown |-> FALSE,
                 obs |-> NoObs]

\* chunk.getVoxel(x, y, z) on the chunk
GetVoxelCall(x, y, z) ==
    /\ steps = 0
    /\ steps' = steps + 1
    /\ LET r == GetVoxel(heap[1], x, y, z)
       IN  Commit([Machine EXCEPT !.ret = r.ret, !.thrown = r.thrown],
                  "getVoxel", <<x, y, z>>)

\* chunk.setVoxel(x, y, z, type) on the chunk
SetVoxelCall(x, y, z, type) ==
    /\ steps = 0
    /\ steps' = steps + 1
    /\ LET r == SetVoxel(heap[1], x, y, z, type)
       IN  Commit([Machine EXCEPT !.heap[1] = r.chunk, !.ret = r.ret,
                                  !.thrown = r.thrown],
                  "setVoxel", <<x, y, z, type>>)

NextChunk ==
    \/ \E x \in CoordRange, y \in CoordRange, z \in CoordRange :
          GetVoxelCall(x, y, z)
    \/ \E x \in CoordRange, y \in CoordRange, z \in CoordRange,
          type \in VoxelTypes : SetVoxelCall(x, y, z, type)

SpecChunk == InitChunk /\ [][NextChunk]_vars

----------------------------------------------------------------------------
(* The render window: update() alone, for every renderDistance up to       *)
(* MaxRenderDistance                                                       *)

\* camera positions: inside chunks (0,0,0), (1,0,0) and (-1,0,0)
WindowViewerPositions == {<<1, 1, 1>>, <<N + 1, 1, 1>>, <<-1, 1, 1>>}

InitWindow ==
    /\ InitManager
    /\ renderDistance \in 1..MaxRenderDistance

NextWindow == \E p \in WindowViewerPositions : Update(p)

SpecWindow == InitWindow /\ [][NextWindow]_vars

----------------------------------------------------------------------------
(* Properties *)

\* the chunk objects that are values of the chunks map
KnownObjs == {chunks[i].obj : i \in DOMAIN chunks}

\* the members of the activeChunks set
ActiveSet == {activeChunks[i] : i \in DOMAIN activeChunks}

\* C1: no sequence of getChunkByIndex, update, processGenerationQueue,
\* getBlockAt and setBlockAt calls raises an exception.
C1_NoOperationThrows == ~lastOp.thrown

\* C2: when a chunk that was unloaded while it waited in the generation
\* queue is dequeued, the generator is not invoked on it and it is not meshed.
C2_UnloadedDequeueIsNoOp ==
    (lastOp.obs.dequeued # NoRef /\ ~lastOp.obs.dequeuedKnown)
        => (~lastOp.obs.generatorReached /\ ~lastOp.obs.meshReached)

\* C3: every non-null neighbor reference of a known chunk points to a chunk
\* that is in the known-chunk map.
C3_NoReferenceToUnloaded ==
    \A a \in KnownObjs :
        heap[a].neighbors # NoLinks =>
            \A f \in FaceSet :
                heap[a].neighbors[f] # NoRef => heap[a].neighbors[f] \in KnownObjs

\* C4: if the neighbor reference of a known chunk A along face f points to
\* B, then B is the chunk known at the coordinate adjacent to A along f and
\* the reference of B along the opposite face points to A.
C4_NeighborsSymmetric ==
    \A a \in KnownObjs :
        heap[a].neighbors # NoLinks =>
            \A f \in FaceSet :
                LET b == heap[a].neighbors[f]
                IN  b # NoRef =>
                       /\ MapGet(chunks, NeighborId(heap[a].x, heap[a].y,
                                                    heap[a].z, f)) = b
                       /\ heap[b].neighbors # NoLinks
                       /\ heap[b].neighbors[GetOppositeFace(f)] = a

\* C5: an update() that unloads chunks completes without error, and a chunk
\* returned for a coordinate that was unloaded before has every voxel air,
\* isEmpty true and needsUpdate true.
C5_UnloadThenReacquire ==
    /\ (lastOp.op = "update" /\ lastOp.obs.unloadedIds # {}) => ~lastOp.thrown
    /\ \A c \in lastOp.obs.reacquired : c.allAir /\ c.isEmpty /\ c.needsUpdate

\* C6: the isEmpty flag of each known chunk is true exactly when all of its
\* voxels are air.
C6_EmptyIffAllAir ==
    \A a \in KnownObjs :
        heap[a].voxels # NoVoxels => (heap[a].isEmpty <=> AllAir(heap[a]))

\* the local coordinates of a chunk
LocalCoords == {<<x, y, z>> : x \in 0..(N - 1), y \in 0..(N - 1), z \in 0..(N - 1)}

\* what getVoxel returns for the local coordinate l of chunk c
Read(c, l) == GetVoxel(c, l[1], l[2], l[3]).ret

\* C7: for every local coordinate in [0,N)^3 and block type t, setVoxel
\* returns true, a getVoxel of that coordinate right after it returns t, and
\* getVoxel of every other in-range coordinate returns what it returned
\* before the set.
C7_SetThenGet ==
    [][(lastOp'.op = "setVoxel"
          /\ <<lastOp'.arg[1], lastOp'.arg[2], lastOp'.arg[3]>> \in LocalCoords)
       => /\ ~lastOp'.thrown
          /\ lastOp'.ret = TRUE
          /\ Read(heap'[1], lastOp'.arg) = lastOp'.arg[4]
          /\ \A l \in LocalCoords :
                l # <<lastOp'.arg[1], lastOp'.arg[2], lastOp'.arg[3]>>
                    => Read(heap'[1], l) = Read(heap[1], l)]_vars

\* a setVoxel of BEDROCK at (1,1,1) in a chunk whose cell (0,0,0) holds
\* STONE has returned true, and both cells read back
C7_Witness ==
    /\ lastOp.op = "setVoxel"
    /\ lastOp.arg = <<1, 1, 1, BEDROCK>>
    /\ lastOp.ret = TRUE
    /\ Read(heap[1], <<1, 1, 1>>) = BEDROCK
    /\ Read(heap[1], <<0, 0, 0>>) = STONE

\* C8: for every local coordinate with a component outside [0,N), getVoxel
\* returns 0 and setVoxel returns false, neither raises an error and
\* neither changes the voxel array, needsUpdate or isEmpty.
C8_OutOfRangeRejected ==
    [][(lastOp'.op \in {"getVoxel", "setVoxel"}
          /\ <<lastOp'.arg[1], lastOp'.arg[2], lastOp'.arg[3]>> \notin LocalCoords)
       => /\ ~lastOp'.thrown
          /\ lastOp'.op = "getVoxel" => lastOp'.ret = 0
          /\ lastOp'.op = "setVoxel" => lastOp'.ret = FALSE
          /\ heap'[1].voxels = heap[1].voxels
          /\ heap'[1].needsUpdate = heap[1].needsUpdate
          /\ heap'[1].isEmpty = heap[1].isEmpty]_vars

\* a setVoxel of STONE at (N,0,0) on a chunk that holds a block and has been
\* meshed has returned false, and the chunk still needs no update
C8_Witness ==
    /\ lastOp.op = "setVoxel"
    /\ lastOp.arg = <<N, 0, 0, STONE>>
    /\ lastOp.ret = FALSE
    /\ ~heap[1].needsUpdate
    /\ ~heap[1].isEmpty
    /\ NonZeroCells(heap[1].voxels) = 1

\* the chunk coordinate floor(viewerPosition / chunkSize)
ViewerChunk(p) == <<FloorDiv(p[1], N), FloorDiv(p[2], N), FloorDiv(p[3], N)>>

\* the coordinates c with d = c - v, |d.y| <= 2 and
\* d.x^2 + d.y^2 + d.z^2 <= r^2
WindowAround(v, r) ==
    {<<v[1] + dx, v[2] + dy, v[3] + dz>> :
        <<dx, dy, dz>> \in
            {d \in ((-r)..r) \X ((-r)..r) \X ((-r)..r) :
                /\ d[2] >= -2 /\ d[2] <= 2
                /\ d[1] * d[1] + d[2] * d[2] + d[3] * d[3] <= r * r}}

\* C9: after update(viewerPosition) returns, the active set is exactly the
\* set of chunk coordinates c with d = c - floor(viewerPosition / chunkSize),
\* |d.y| <= 2 and sqrt(d.x^2 + d.y^2 + d.z^2) <= renderDistance.
C9_ActiveSetIsWindow ==
    (lastOp.op = "update" /\ ~lastOp.thrown)
        => ActiveSet = WindowAround(ViewerChunk(lastOp.arg), renderDistance)

\* update() has returned for a viewer in chunk (0,0,0) with renderDistance
\* 2: (0,2,0) and (1,1,1) are active, (2,1,0) is not
C9_Witness ==
    /\ lastOp.op = "update"
    /\ ~lastOp.thrown
    /\ renderDistance = 2
    /\ ViewerChunk(lastOp.arg) = <<0, 0, 0>>
    /\ {<<0, 2, 0>>, <<1, 1, 1>>, <<-2, 0, 0>>} \subseteq ActiveSet
    /\ <<2, 1, 0>> \notin ActiveSet

\* the faces of its chunk the local coordinate l lies on
FacesOf(l) ==
    {f \in FaceSet :
        \/ f = "left" /\ l[1] = 0
        \/ f = "right" /\ l[1] = N - 1
        \/ f = "bottom" /\ l[2] = 0
        \/ f = "top" /\ l[2] = N - 1
        \/ f = "back" /\ l[3] = 0
        \/ f = "front" /\ l[3] = N - 1}

\* C10: when setBlockAt succeeds on a voxel on a face of its chunk and the
\* chunk across that face is known, the edit has marked the owning chunk
\* as needing remesh and the neighbor needs remesh.
C10_BoundaryEditMarksBoth ==
    (lastOp.op = "setBlockAt" /\ ~lastOp.thrown /\ lastOp.ret = TRUE)
        => \A f \in FacesOf(lastOp.obs.local) :
              LET c == heap[lastOp.obs.owner]
                  id == NeighborId(c.x, c.y, c.z, f)
              IN  MapHas(chunks, id)
                     => /\ lastOp.obs.ownerDirty
                        /\ heap[MapGet(chunks, id)].needsUpdate

\* setBlockAt has put STONE on the right face of chunk (0,0,0); chunk
\* (1,0,0) holds a block, has a mesh and needs a remesh again
C10_Witness ==
    /\ lastOp.op = "setBlockAt"
    /\ ~lastOp.thrown
    /\ lastOp.arg = <<(<<N - 1, 1, 1>>), STONE>>
    /\ lastOp.ret = TRUE
    /\ MapHas(chunks, <<1, 0, 0>>)
    /\ ~AllAir(heap[MapGet(chunks, <<1, 0, 0>>)])
    /\ heap[MapGet(chunks, <<1, 0, 0>>)].mesh # NoRef
    /\ heap[MapGet(chunks, <<1, 0, 0>>)].needsUpdate

\* the local coordinates with no component equal to 0 or N - 1
InteriorCoords ==
    {l \in LocalCoords : \A k \in 1..3 : l[k] # 0 /\ l[k] # N - 1}

\* the geometry held by the mesh of chunk object i, if it has one
MeshGeometry(h, ms, i) ==
    IF h[i].mesh = NoRef THEN NoGeometry ELSE ms[h[i].mesh].geometry

\* C11: a setBlockAt on a voxel strictly interior to its chunk leaves the
\* needsUpdate flag, the voxels and the geometry of every other chunk
\* unchanged.
C11_InteriorEditFrame ==
    [][(lastOp'.op = "setBlockAt" /\ lastOp'.obs.local \in InteriorCoords)
       => \A i \in DOMAIN heap :
             i # lastOp'.obs.owner
                => /\ heap'[i].needsUpdate = heap[i].needsUpdate
                   /\ heap'[i].voxels = heap[i].voxels
                   /\ heap'[i].geometry = heap[i].geometry
                   /\ heap'[i].mesh = heap[i].mesh
                   /\ MeshGeometry(heap', meshes', i)
                         = MeshGeometry(heap, meshes, i)]_vars

\* setBlockAt has put STONE strictly inside chunk (1,0,0) while the linked
\* chunk (0,0,0) holds a block and a mesh and needs no remesh
C11_Witness ==
    /\ lastOp.op = "setBlockAt"
    /\ ~lastOp.thrown
    /\ lastOp.ret = TRUE
    /\ lastOp.arg = <<(<<N + 1, 1, 1>>), STONE>>
    /\ lastOp.obs.local \in InteriorCoords
    /\ MapHas(chunks, <<0, 0, 0>>)
    /\ heap[lastOp.obs.owner].neighbors["left"] = MapGet(chunks, <<0, 0, 0>>)
    /\ heap[MapGet(chunks, <<0, 0, 0>>)].mesh # NoRef
    /\ ~heap[MapGet(chunks, <<0, 0, 0>>)].needsUpdate

----------------------------------------------------------------------------
(* The meshers on their own: GreedyMesher.mesh and the per-voxel loops of  *)
(* the simple generateMesh applied to the grid of one chunk that has no    *)
(* neighbor linked                                                         *)

\* the cells whose block type is chosen freely; every other cell holds the
\* background type
MeshCells ==
    {<<0, 0, 0>>, <<1, 0, 0>>, <<1, 1, 1>>, <<N - 1, N - 1, N - 1>>}

\* the block type of cell l in the grid with background bg and choices f
TypeAt(bg, f, l) == IF l \in DOMAIN f THEN f[l] ELSE bg

\* new Chunk(0, 0, 0, size) after setVoxel(x, y, z, TypeAt(..)) on each cell
GridChunk(bg, f) ==
    LET solid == {l \in LocalCoords : TypeAt(bg, f, l) # AIR}
        At(i) == CHOOSE l \in solid : VoxelIndex(l[1], l[2], l[3]) = i
    IN  [NewChunk(0, 0, 0) EXCEPT
            !.voxels = Table([i \in {VoxelIndex(l[1], l[2], l[3]) : l \in solid}
                                 |-> TypeAt(bg, f, At(i))]),
            !.isEmpty = (solid = {})]

InitMesh ==
    /\ variant \in {"pooled", "simple"}
    /\ terrainHook = "absent"
    /\ renderDistance = RenderDistance
    /\ \E bg \in VoxelTypes, f \in [MeshCells -> VoxelTypes] :
          heap = <<GridChunk(bg, f)>>
    /\ meshes = <<>>
    /\ chunks = <<>>
    /\ activeChunks = <<>>
    /\ generationQueue = <<>>
    /\ isGenerating = FALSE
    /\ scene = {}
    /\ pool = <<>>
    /\ poolActive = <<>>
    /\ occlusionMap = <<>>
    /\ steps = 0
    /\ unloaded = {}
    /\ requested = <<>>
    /\ served = <<>>
    /\ generatorRuns = <<>>
    /\ game = NewGame
    /\ lastOp = [op |-> "init", arg |-> Null, ret |-> Null, thrown |-> FALSE,
                 obs |-> NoObs]

\* new GreedyMesher().mesh(chunk.voxels, [size, size, size]), called once
\* for the grid
GreedyMeshCall ==
    /\ steps < MaxSteps
    /\ lastOp.obs.greedy = {}
    /\ steps' = steps + 1
    /\ LET data == MeshData(GreedyMesh(heap[1].voxels))
       IN  Commit([Machine EXCEPT !.ret = data,
                                  !.obs = [lastOp.obs EXCEPT !.greedy = {data}]],
                  "mesh", Null)

\* the loops of the simple generateMesh over the voxels of the chunk, run
\* once for the grid
NaiveMeshCall ==
    /\ steps < MaxSteps
    /\ lastOp.obs.naive = {}
    /\ steps' = steps + 1
    /\ LET faces == NaiveFaces(heap, heap[1])
       IN  Commit([Machine EXCEPT !.ret = faces,
                                  !.obs = [lastOp.obs EXCEPT !.naive = {faces}]],
                  "naiveMesh", Null)

NextMesh == GreedyMeshCall \/ NaiveMeshCall

SpecMesh == InitMesh /\ [][NextMesh]_vars

\* C12: for every voxel grid, the number of quads GreedyMesher.mesh outputs
\* is at most the number of faces the per-voxel mesher emits for the same
\* grid with no neighbor chunk linked.
C12_GreedyAtMostNaive ==
    \A g \in lastOp.obs.greedy : \A f \in lastOp.obs.naive :
        Len(g.quads) <= Len(f)

\* every cell of the grid of chunk c holds the block type t
UniformGrid(c, t) == \A l \in LocalCoords : Read(c, l) = t

\* the quads of qs that lie in the plane x[axis] = plane and cover the whole
\* N by N side from its corner
FullSideQuads(qs, axis, plane) ==
    {i \in DOMAIN qs :
        /\ qs[i].axis = axis
        /\ qs[i].pos = [k \in 1..3 |-> IF k = axis + 1 THEN plane ELSE 0]
        /\ qs[i].w = N
        /\ qs[i].h = N}

\* C13: meshing a grid in which every voxel holds the same non-air block
\* type yields exactly 6 quads, one per side of the grid, each covering that
\* whole side.
C13_SolidGridSixQuads ==
    (lastOp.op = "mesh"
       /\ \E t \in VoxelTypes \ {AIR} : UniformGrid(heap[1], t))
        => /\ Len(lastOp.ret.quads) = 6
           /\ \A axis \in 0..2 : \A plane \in {0, N} :
                 Cardinality(FullSideQuads(lastOp.ret.quads, axis, plane)) = 1

\* mesh has returned 6 quads for the grid that holds BEDROCK in every cell
C13_Witness ==
    /\ lastOp.op = "mesh"
    /\ UniformGrid(heap[1], BEDROCK)
    /\ NonZeroCells(heap[1].voxels) = N * N * N
    /\ Len(lastOp.ret.quads) = 6

\* C14: meshing a grid in which every voxel is air yields no vertices, no
\* normals, no UVs and no indices.
C14_AirGridNoOutput ==
    (lastOp.op = "mesh" /\ UniformGrid(heap[1], AIR))
        => /\ lastOp.ret.vertices = 0
           /\ lastOp.ret.normals = 0
           /\ lastOp.ret.uvs = 0
           /\ lastOp.ret.indices = 0

\* mesh has returned for the grid that holds air in every cell
C14_Witness ==
    /\ lastOp.op = "mesh"
    /\ ~lastOp.thrown
    /\ UniformGrid(heap[1], AIR)
    /\ NonZeroCells(heap[1].voxels) = 0
    /\ lastOp.ret.quads = <<>>

\* C15: getChunkByIndex for a coordinate already in the known-chunk map
\* returns the chunk object the map holds and leaves the map, every chunk
\* (its neighbor links included), the generation queue and the pool
\* unchanged; no chunk object is in the generation queue twice.
C15_KnownLookupIdempotent ==
    [][/\ (lastOp'.op = "getChunkByIndex" /\ MapHas(chunks, lastOp'.arg))
           => /\ ~lastOp'.thrown
              /\ lastOp'.ret = MapGet(chunks, lastOp'.arg)
              /\ chunks' = chunks
              /\ heap' = heap
              /\ generationQueue' = generationQueue
              /\ pool' = pool
              /\ poolActive' = poolActive
       /\ \A i, j \in DOMAIN generationQueue' :
             i # j => generationQueue'[i] # generationQueue'[j]]_vars

\* getChunkByIndex(0, 0, 0) has returned the chunk an earlier call created
\* and linked; that chunk is in the generation queue
C15_Witness ==
    /\ lastOp.op = "getChunkByIndex"
    /\ ~lastOp.thrown
    /\ lastOp.obs.createdIds = {}
    /\ MapHas(chunks, lastOp.arg)
    /\ lastOp.ret = MapGet(chunks, lastOp.arg)
    /\ \E i \in DOMAIN generationQueue : generationQueue[i] = lastOp.ret
    /\ \E f \in FaceSet : heap[lastOp.ret].neighbors[f] # NoRef

\* the sequence a is an initial part of the sequence b
IsPrefix(a, b) == Len(a) <= Len(b) /\ \A i \in DOMAIN a : a[i] = b[i]

\* C16: a call of processGenerationQueue, on its own or from update(),
\* removes at most one chunk from the generation queue and evaluates the
\* generator call at most once, however many chunks the tick requested.
C16_OneGenerationPerTick ==
    [][lastOp'.op \in {"processGenerationQueue", "update"}
       => /\ Len(served') <= Len(served) + 1
          /\ \/ IsPrefix(generationQueue, generationQueue')
             \/ /\ Len(generationQueue) > 0
                /\ IsPrefix(Tail(generationQueue), generationQueue')
          /\ lastOp'.obs.generatorCalls <= 1]_vars

\* update() has returned after shifting one chunk off a queue that held
\* several, and it requested chunks itself; others are still waiting
C16_Witness ==
    /\ lastOp.op = "update"
    /\ ~lastOp.thrown
    /\ lastOp.obs.dequeued # NoRef
    /\ lastOp.obs.createdIds # {}
    /\ Len(served) = 1
    /\ Len(generationQueue) >= 2

RECURSIVE IsSubseqFrom(_, _, _)
IsSubseqFrom(a, b, k) ==
    IF k > Len(a) THEN TRUE
    ELSE /\ \E j \in DOMAIN b : b[j] = a[k]
         /\ IsSubseqFrom(a, SubSeq(b, 1 + (CHOOSE j \in DOMAIN b :
                                              /\ b[j] = a[k]
                                              /\ \A i \in 1..(j - 1) : b[i] # a[k]),
                                   Len(b)), k + 1)

C18_NoGeneratorLeavesAir ==
    terrainHook = "absent"
        => /\ lastOp.op = "processGenerationQueue"
                 => (~lastOp.thrown /\ ~isGenerating)
           /\ \A i \in DOMAIN served :
                 served[i] \in KnownObjs
                    => /\ AllAir(heap[served[i]])
                       /\ heap[served[i]].isEmpty
                       /\ heap[served[i]].mesh = NoRef
                       /\ heap[served[i]].geometry = NoGeometry

\* with no generator wired, processGenerationQueue has dequeued a chunk that
\* is still known
C18_Witness ==
    /\ terrainHook = "absent"
    /\ lastOp.op = "processGenerationQueue"
    /\ ~lastOp.thrown
    /\ lastOp.obs.dequeued # NoRef
    /\ lastOp.obs.dequeued \in KnownObjs
    /\ lastOp.obs.meshReached
    /\ AllAir(heap[lastOp.obs.dequeued])
    /\ heap[lastOp.obs.dequeued].isEmpty

----------------------------------------------------------------------------
(* The chunk pool of the pooled ChunkManager: its methods called directly, *)
(* and update(), which acquires and releases through it                    *)

InitPool ==
    /\ InitManager
    /\ variant = "pooled"
    /\ renderDistance = RenderDistance

\* chunkPool.acquire()
AcquireCall ==
    /\ steps < MaxSteps
    /\ steps' = steps + 1
    /\ Commit(Acquire(Machine), "acquire", Null)

\* chunkPool.release(obj)
ReleaseCall(o) ==
    /\ steps < MaxSteps
    /\ steps' = steps + 1
    /\ Commit(Release(Machine, o), "release", o)

\* chunkPool.releaseAll()
ReleaseAllCall ==
    /\ steps < MaxSteps
    /\ steps' = steps + 1
    /\ Commit(ReleaseAll(Machine), "releaseAll", Null)

\* release is handed the chunks the first two acquire() calls return (the
\* pool pops from the end of its free list)
NextPool ==
    \/ AcquireCall
    \/ \E o \in {PoolInitialSize, PoolInitialSize - 1} : ReleaseCall(o)
    \/ ReleaseAllCall
    \/ \E p \in WindowViewerPositions : Update(p)

SpecPool == InitPool /\ [][NextPool]_vars

\* C19: no object is in both the free list and the active set of the pool,
\* and no object appears twice in the free list.
C19_PoolSetsDisjoint ==
    /\ \A i \in DOMAIN pool : ~SetHas(poolActive, pool[i])
    /\ \A i, j \in DOMAIN pool : i # j => pool[i] # pool[j]

----------------------------------------------------------------------------
(* ChunkManager.getStats, read while setBlockAt calls bury one chunk: the  *)
(* facing layers of the six chunks around chunk (1,1,1) are filled first,  *)
(* then every cell of chunk (1,1,1)                                        *)

\* the world positions of the edits, in order
FillScript ==
    [k \in 1..(6 * N * N + N * N * N) |->
        IF k <= 6 * N * N
        THEN LET face == (k - 1) \div (N * N)
                 a == N + ((k - 1) % N)
                 b == N + (((k - 1) \div N) % N)
             IN  CASE face = 0 -> <<N - 1, a, b>>
                   [] face = 1 -> <<2 * N, a, b>>
                   [] face = 2 -> <<a, N - 1, b>>
                   [] face = 3 -> <<a, 2 * N, b>>
                   [] face = 4 -> <<a, b, N - 1>>
                   [] face = 5 -> <<a, b, 2 * N>>
        ELSE LET c == k - 6 * N * N - 1
             IN  <<N + (c % N), N + ((c \div N) % N), N + (c \div (N * N))>>]

\* the forEach of getStats from the k-th entry of the chunks map on:
\* [totalBlocks, renderedChunks, thrown]; voxels.filter on a disposed chunk
\* is a TypeError
RECURSIVE StatsFrom(_, _)
StatsFrom(m, k) ==
    IF k > Len(m.chunks)
    THEN [totalBlocks |-> 0, renderedChunks |-> 0, thrown |-> FALSE]
    ELSE LET c == m.heap[m.chunks[k].obj]
             rest == StatsFrom(m, k + 1)
         IN  IF c.isEmpty THEN rest
             ELSE IF c.voxels = NoVoxels
             THEN [totalBlocks |-> 0, renderedChunks |-> 0, thrown |-> TRUE]
             ELSE [totalBlocks |-> NonZeroCells(c.voxels) + rest.totalBlocks,
                   renderedChunks |->
                       (IF c.mesh # NoRef /\ m.meshes[c.mesh].visible
                        THEN 1 ELSE 0) + rest.renderedChunks,
                   thrown |-> rest.thrown]

\* ChunkManager.getStats: ret is the object it returns
GetStats(m) ==
    LET sums == StatsFrom(m, 1)
    IN  [m EXCEPT !.thrown = sums.thrown,
                  !.ret = [totalChunks |-> Len(m.chunks),
                           activeChunks |-> Len(m.activeChunks),
                           renderedChunks |-> sums.renderedChunks,
                           totalBlocks |-> sums.totalBlocks,
                           queuedChunks |-> Len(m.generationQueue)]]

InitStats ==
    /\ InitManager
    /\ terrainHook = "class"
    /\ renderDistance = RenderDistance

\* world.setBlockAt(x, y, z, STONE) for the next position of the script
FillEdit ==
    /\ steps < Len(FillScript)
    /\ steps' = steps + 1
    /\ Commit(WorldSetBlockAt(Machine, FillScript[steps + 1], STONE),
              "setBlockAt", <<FillScript[steps + 1], STONE>>)

\* chunkManager.getStats()
GetStatsCall ==
    /\ lastOp.op # "getStats"
    /\ UNCHANGED steps
    /\ Commit(GetStats(Machine), "getStats", Null)

NextStats == FillEdit \/ GetStatsCall

SpecStats == InitStats /\ [][NextStats]_vars

\* the non-air voxels of the known chunks, each with its chunk
KnownBlocks ==
    {<<o, i>> \in KnownObjs \X (0..(N * N * N - 1)) :
        heap[o].voxels # NoVoxels /\ Cell(heap[o].voxels, i) # AIR}

\* C20: getStats() returns totalChunks equal to the size of the known-chunk
\* map, activeChunks equal to the size of the active set, queuedChunks
\* equal to the generation-queue length and totalBlocks equal to the number
\* of non-air voxels over all known chunks.
C20_StatsMatchState ==
    lastOp.op = "getStats"
        => /\ ~lastOp.thrown
           /\ lastOp.ret.totalChunks = Cardinality(KnownObjs)
           /\ lastOp.ret.activeChunks = Cardinality(ActiveSet)
           /\ lastOp.ret.queuedChunks = Len(generationQueue)
           /\ lastOp.ret.totalBlocks = Cardinality(KnownBlocks)

----------------------------------------------------------------------------
(* Remeshing one chunk on its own: setVoxel on the cells that may hold a   *)
(* block and generateMesh, in any order                                    *)

\* the cells edited: the first and the last cell of the grid
RemeshCells == {<<0, 0, 0>>, <<N - 1, N - 1, N - 1>>}

\* chunk.setVoxel(x, y, z, type) on one of those cells
EditVoxelCall(l, type) ==
    /\ steps < MaxSteps
    /\ steps' = steps + 1
    /\ LET r == SetVoxel(heap[1], l[1], l[2], l[3], type)
       IN  Commit([Machine EXCEPT !.heap[1] = r.chunk, !.ret = r.ret,
                                  !.thrown = r.thrown],
                  "setVoxel", <<l[1], l[2], l[3], type>>)

\* chunk.generateMesh()
GenerateMeshCall ==
    /\ steps < MaxSteps
    /\ steps' = steps + 1
    /\ Commit(GenerateMesh(Machine, 1), "generateMesh", Null)

NextRemesh ==
    \/ \E l \in RemeshCells, type \in VoxelTypes : EditVoxelCall(l, type)
    \/ GenerateMeshCall

SpecRemesh == InitChunk /\ [][NextRemesh]_vars

\* what the mesher of the variant makes of the voxel grid of chunk c, which
\* has no neighbor linked
MeshOfGrid(c) ==
    IF variant = "pooled" THEN GreedyMesh(c.voxels) ELSE NaiveFaces(<<c>>, c)

\* C21: after generateMesh completes on a chunk that is not flagged empty,
\* needsUpdate is false and the geometry of the chunk and of its mesh is the
\* result of meshing its current voxel grid.
C21_RemeshReplacesGeometry ==
    [][(lastOp'.op = "generateMesh" /\ ~lastOp'.thrown /\ ~heap[1].isEmpty)
       => /\ ~heap'[1].needsUpdate
          /\ heap'[1].geometry = MeshOfGrid(heap[1])
          /\ MeshGeometry(heap', meshes', 1) = MeshOfGrid(heap[1])]_vars

\* C22: when generateMesh runs on a chunk that is not flagged empty and
\* meshing its grid gives no face, the chunk is flagged isEmpty afterwards
\* and holds no mesh and no geometry.
C22_ZeroFacesFlagsEmpty ==
    [][(lastOp'.op = "generateMesh" /\ ~lastOp'.thrown /\ ~heap[1].isEmpty
          /\ Len(MeshOfGrid(heap[1])) = 0)
       => /\ heap'[1].isEmpty
          /\ heap'[1].mesh = NoRef
          /\ heap'[1].geometry = NoGeometry]_vars

----------------------------------------------------------------------------
(* The World: new World(scene), then generate(), update(), block edits and *)
(* dispose() in any order                                                  *)

\* the world cells whose cave noise, noise3D at 0.05 times the cell, is
\* above the threshold 0.7: with the permutation every World has, the noise
\* stays below 0.54 on the cells World.generate reaches, so there is none
CaveChoices == {{}}

\* the state after new World(scene)
InitWorld ==
    /\ InitManager
    /\ terrainHook = "class"
    /\ renderDistance = RenderDistance

\* world.generate()
Generate(heightAt, caves) ==
    /\ steps < MaxSteps
    /\ steps' = steps + 1
    /\ Commit(WorldGenerate(Machine, heightAt, caves), "generate", caves)

\* blocks are edited on the right face of chunk (0,0,0) and on the right
\* face of chunk (1,0,0)
NextWorld ==
    \/ \E heightAt \in SurfaceHeights, caves \in CaveChoices :
          Generate(heightAt, caves)
    \/ \E p \in ViewerPositions : Update(p)
    \/ ProcessQueue
    \/ \E w \in {<<N - 1, 1, 1>>, <<2 * N - 1, 1, 1>>}, t \in EditTypes :
          SetBlockAt(w, t)
    \/ DisposeCall

SpecWorld == InitWorld /\ [][NextWorld]_vars

\* C23: over its lifetime in the known-chunk map no chunk has the terrain
\* generator run on it more than once, chunks created by World.generate and
\* later dequeued by processGenerationQueue included.
C23_GeneratedAtMostOnce ==
    \A i, j \in DOMAIN generatorRuns :
        i # j => generatorRuns[i] # generatorRuns[j]

\* C24: when window.TerrainGenerator is defined, processGenerationQueue
\* runs the generator on the chunk it dequeues and then remeshes it, without
\* error, so that the chunk leaves the call generated.
C24_DequeuedChunkIsGenerated ==
    [][(terrainHook = "class" /\ lastOp'.obs.dequeued # NoRef)
       => /\ ~lastOp'.thrown
          /\ lastOp'.obs.meshReached
          /\ Len(generatorRuns') = Len(generatorRuns) + 1
          /\ generatorRuns'[Len(generatorRuns')] = lastOp'.obs.dequeued]_vars

\* the known chunk across face f of chunk object o, NoRef when there is none
Across(o, f) ==
    LET d == FaceDelta(f)
    IN  MapGet(chunks, <<heap[o].x + d[1], heap[o].y + d[2], heap[o].z + d[3]>>)

\* C25: whenever a chunk is meshed, every face of it across which a known
\* chunk lies has its neighbor reference pointing to that chunk; two known
\* face-adjacent chunks are never left unlinked.
C25_LinkedBeforeMeshed ==
    /\ lastOp.obs.unlinked = {}
    /\ \A o \in KnownObjs : \A f \in FaceSet :
           Across(o, f) # NoRef => /\ heap[o].neighbors # NoLinks
                                   /\ heap[o].neighbors[f] = Across(o, f)

\* a chunk created before the chunk across one of its faces has been meshed
C25_Witness ==
    \E o \in lastOp.obs.meshed : \E f \in FaceSet :
        /\ o \in KnownObjs
        /\ Across(o, f) # NoRef
        /\ Across(o, f) > o
        /\ heap[o].neighbors[f] = Across(o, f)

\* whether the cell adjacent to cell l of chunk object o along face f is air:
\* a cell of o when it lies inside the grid, else the cell of the known chunk
\* across f that touches l, and air when no chunk is known there
AdjacentIsAir(o, l, f) ==
    LET d == FaceDelta(f)
        n == <<l[1] + d[1], l[2] + d[2], l[3] + d[3]>>
    IN  IF n \in LocalCoords THEN Read(heap[o], n) = AIR
        ELSE IF Across(o, f) = NoRef THEN TRUE
        ELSE Read(heap[Across(o, f)],
                  <<(n[1] + N) % N, (n[2] + N) % N, (n[3] + N) % N>>) = AIR

\* C26: shouldRenderFace(x, y, z, face) on a known chunk returns true exactly
\* when the cell adjacent along face is air, that cell being taken from the
\* chunk itself inside the grid and from the chunk located across the face
\* outside it; it returns true when no chunk is there.
C26_FaceVisibleIffAdjacentAir ==
    variant = "simple" =>
        \A o \in KnownObjs : \A l \in LocalCoords : \A f \in FaceSet :
            LET r == ShouldRenderFace(heap, heap[o], l[1], l[2], l[3], f)
            IN  /\ ~r.thrown
                /\ r.ret = AdjacentIsAir(o, l, f)

\* C27: a setBlockAt on a voxel on the boundary of its chunk leaves the
\* needsUpdate flag of the neighbors across the faces on which the voxel
\* does not lie as it was.
C27_OtherNeighborsKeepFlag ==
    [][(lastOp'.op = "setBlockAt" /\ ~lastOp'.thrown /\ lastOp'.ret = TRUE)
       => \A f \in FaceSet \ FacesOf(lastOp'.obs.local) :
             LET nb == heap'[lastOp'.obs.owner].neighbors[f]
             IN  (nb # NoRef /\ nb \in DOMAIN heap)
                    => heap'[nb].needsUpdate = heap[nb].needsUpdate]_vars

----------------------------------------------------------------------------
(* The quads of GreedyMesher.mesh against the grid they were made from *)

\* the sweep plane of quad q (between x[d] = xd and xd + 1) and the mask
\* cell of its corner
QuadPlane(q) == q.pos[q.axis + 1] - 1

QuadU(q) == q.pos[((q.axis + 1) % 3) + 1]

QuadV(q) == q.pos[((q.axis + 2) % 3) + 1]

\* quad q lies in the plane xd of axis d and covers its mask cell (i, j)
Covers(q, d, xd, i, j) ==
    /\ q.axis = d
    /\ QuadPlane(q) = xd
    /\ i >= QuadU(q) /\ i < QuadU(q) + q.w
    /\ j >= QuadV(q) /\ j < QuadV(q) + q.h

\* the voxel of chunk c at x[d] = xd, x[u] = i, x[v] = j; air outside
VoxelAt(c, d, xd, i, j) ==
    IF xd >= 0 /\ xd < N THEN Read(c, AxisPos(d, xd, i, j)) ELSE AIR

\* the value of mask cell (i, j) of plane xd of axis d: zero when the two
\* voxels it separates are equal, else the first one, or minus the second
FaceValue(c, d, xd, i, j) ==
    LET a == VoxelAt(c, d, xd, i, j)
        b == VoxelAt(c, d, xd + 1, i, j)
    IN  IF a = b THEN 0 ELSE IF a # AIR THEN a ELSE -b

\* the value of mask cell (i, j) of the plane of quad qs[q] when that quad
\* is emitted: the cells of the quads before it have been zeroed
EmissionValue(c, qs, q, i, j) ==
    IF \E p \in 1..(q - 1) :
          Covers(qs[p], qs[q].axis, QuadPlane(qs[q]), i, j)
    THEN 0
    ELSE FaceValue(c, qs[q].axis, QuadPlane(qs[q]), i, j)

\* C28: every quad of the greedy mesher covers a rectangle of mask cells that
\* hold one identical non-zero value; when it is emitted the rectangle cannot
\* be extended by one cell along u, and at that width it cannot be extended
\* by one row along v.
C28_QuadsAreMaximalRectangles ==
    lastOp.op = "mesh" =>
        LET qs == lastOp.ret.quads
            c == heap[1]
        IN  \A q \in DOMAIN qs :
                LET i0 == QuadU(qs[q])
                    j0 == QuadV(qs[q])
                    w == qs[q].w
                    h == qs[q].h
                    val == EmissionValue(c, qs, q, i0, j0)
                IN  /\ val # 0
                    /\ w >= 1 /\ h >= 1 /\ i0 + w <= N /\ j0 + h <= N
                    /\ \A k \in 0..(w - 1) : \A l \in 0..(h - 1) :
                           EmissionValue(c, qs, q, i0 + k, j0 + l) = val
                    /\ \/ i0 + w = N
                       \/ EmissionValue(c, qs, q, i0 + w, j0) # val
                    /\ \/ j0 + h = N
                       \/ \E k \in 0..(w - 1) :
                             EmissionValue(c, qs, q, i0 + k, j0 + h) # val

\* mesh has returned a quad of more than one cell that stops before the end
\* of its row and before the last row
C28_Witness ==
    /\ lastOp.op = "mesh"
    /\ \E q \in DOMAIN lastOp.ret.quads :
           LET r == lastOp.ret.quads[q]
           IN  /\ r.w > 1
               /\ QuadU(r) + r.w < N
               /\ QuadV(r) + r.h < N

\* the sum of w * h over the quads of qs from the k-th on
RECURSIVE QuadArea(_, _)
QuadArea(qs, k) ==
    IF k > Len(qs) THEN 0 ELSE qs[k].w * qs[k].h + QuadArea(qs, k + 1)

\* the mask cells: axis, plane and the two coordinates in the plane
MaskCells == (0..2) \X ((-1)..(N - 1)) \X (0..(N - 1)) \X (0..(N - 1))

\* C29: in every sweep plane of every grid the quads cover each mask cell
\* whose two adjacent voxels differ exactly once and no cell whose two
\* adjacent voxels are equal; the total area of the quads is the number of
\* mask cells with a non-zero value.
C29_QuadsCoverMaskOnce ==
    lastOp.op = "mesh" =>
        LET qs == lastOp.ret.quads
            c == heap[1]
        IN  /\ \A m \in MaskCells :
                   Cardinality({q \in DOMAIN qs :
                                   Covers(qs[q], m[1], m[2], m[3], m[4])})
                     = IF VoxelAt(c, m[1], m[2], m[3], m[4])
                            # VoxelAt(c, m[1], m[2] + 1, m[3], m[4])
                       THEN 1 ELSE 0
            /\ QuadArea(qs, 1)
                  = Cardinality({m \in MaskCells :
                        FaceValue(c, m[1], m[2], m[3], m[4]) # 0})

\* mesh has returned quads for a grid in which two different solid blocks
\* touch and two equal solid blocks touch
C29_Witness ==
    /\ lastOp.op = "mesh"
    /\ Len(lastOp.ret.quads) > 0
    /\ \E m \in MaskCells :
           /\ VoxelAt(heap[1], m[1], m[2], m[3], m[4]) = STONE
           /\ VoxelAt(heap[1], m[1], m[2] + 1, m[3], m[4]) = BEDROCK
           /\ \E q \in DOMAIN lastOp.ret.quads :
                  Covers(lastOp.ret.quads[q], m[1], m[2], m[3], m[4])
    /\ \E m \in MaskCells :
           /\ VoxelAt(heap[1], m[1], m[2], m[3], m[4]) = STONE
           /\ VoxelAt(heap[1], m[1], m[2] + 1, m[3], m[4]) = STONE

----------------------------------------------------------------------------
(* updateLOD and generateMesh on one chunk that is in no manager *)

\* chunk.updateLOD(cameraPosition) on the chunk
UpdateLODCall(p) ==
    /\ steps < MaxSteps
    /\ steps' = steps + 1
    /\ Commit([Machine EXCEPT !.heap[1] = UpdateLOD(heap[1], p)],
              "updateLOD", p)

\* the viewer stands next to the chunk and beyond each distance at which a
\* tier of either variant begins
NextLod ==
    \/ \E p \in {<<1, 1, 1>>, <<LodHalf + N, 1, 1>>, <<LodNear + N, 1, 1>>,
                  <<LodFar + N, 1, 1>>, <<LodMinimal + N, 1, 1>>} :
          UpdateLODCall(p)
    \/ GenerateMeshCall

SpecLod == InitChunk /\ [][NextLod]_vars

\* C30: updateLOD sets needsUpdate exactly when the tier it computes differs
\* from the stored lodLevel; when the tier is unchanged it leaves needsUpdate
\* and every field other than distance as they were, and a second updateLOD
\* with the same viewer position does not mark the chunk again.
C30_LodMarksOnTierChange ==
    [][lastOp'.op = "updateLOD"
       => LET tier == IF variant = "pooled"
                      THEN LodLevelPooled(Distance4(heap[1], lastOp'.arg))
                      ELSE LodLevelSimple(Distance4(heap[1], lastOp'.arg))
          IN  /\ heap'[1].lodLevel = tier
              /\ tier # heap[1].lodLevel => heap'[1].needsUpdate
              /\ tier = heap[1].lodLevel
                    => heap'[1] = [heap[1] EXCEPT
                                      !.distance = heap'[1].distance]
              /\ (lastOp.op = "updateLOD" /\ lastOp.arg = lastOp'.arg)
                    => heap'[1] = heap[1]
              /\ meshes' = meshes]_vars

\* updateLOD has found the tier it stored before, a tier other than the
\* initial one, and has left the remeshed chunk clean
C30_Witness ==
    /\ lastOp.op = "updateLOD"
    /\ heap[1].lodLevel > 1
    /\ heap[1].mesh # NoRef
    /\ ~heap[1].needsUpdate

----------------------------------------------------------------------------
(* A ChunkManager on which initFrustumCuller(camera) has been called: each *)
(* update() tests the bounding boxes against the frustum of that tick,     *)
(* which the camera decides                                                *)

\* update(cameraPosition, camera) with a camera whose frustum rejects the
\* bounding boxes of the chunks in hidden
UpdateCulled(p, hidden) ==
    /\ steps < MaxSteps
    /\ steps' = steps + 1
    /\ Commit(UpdateManager([Machine EXCEPT !.outside = hidden], p),
              "update", <<p, hidden>>)

NextFrustum ==
    \/ \E p \in ViewerPositions, hidden \in {{}, {<<0, 0, 0>>}} :
          UpdateCulled(p, hidden)
    \/ \E w \in EditPositions, t \in EditTypes : SetBlockAt(w, t)

SpecFrustum == InitWorld /\ [][NextFrustum]_vars

\* C31: after update() every active chunk that holds a mesh has its visible
\* flag equal to (its bounding box passes the frustum test) and (it is not
\* flagged occluded).
C31_VisibleIffInFrustumAndNotOccluded ==
    (lastOp.op = "update" /\ ~lastOp.thrown)
        => \A id \in ActiveSet :
              LET o == MapGet(chunks, id)
              IN  (o # NoRef /\ heap[o].mesh # NoRef)
                     => meshes[heap[o].mesh].visible
                           = (/\ id \notin lastOp.arg[2]
                              /\ ~(/\ id \in DOMAIN occlusionMap
                                   /\ occlusionMap[id] = FALSE))

\* C32: release(obj) for an object that is not in the active set of the pool
\* changes nothing: the reset function is not called, and the free list and
\* the active set stay as they were.
C32_ReleaseOfInactiveIsNoOp ==
    [][(lastOp'.op = "release" /\ ~SetHas(poolActive, lastOp'.arg))
       => /\ ~lastOp'.thrown
          /\ pool' = pool
          /\ poolActive' = poolActive
          /\ heap' = heap]_vars

\* release has been called on an object of the free list that was never
\* acquired
C32_Witness ==
    /\ lastOp.op = "release"
    /\ steps = 1
    /\ ~SetHas(poolActive, lastOp.arg)
    /\ \E i \in DOMAIN pool : pool[i] = lastOp.arg
    /\ Len(pool) = PoolInitialSize

----------------------------------------------------------------------------
(* The game loop: animate() is called for every animation frame *)

\* animate() in a frame that arrives gap milliseconds after the one before,
\* with the camera at p; currentTime - lastFrameTime < 1000 / maxFPS is
\* (currentTime - lastFrameTime) * maxFPS < 1000
AnimateFrame(m, gap, p) ==
    LET currentTime == m.game.now + gap
        m0 == [m EXCEPT !.game.now = currentTime]
    IN  IF ~m.game.isRunning \/ m.game.isPaused THEN m0
        ELSE LET m1 == [m0 EXCEPT
                           !.game.deltaTime = currentTime - m.game.lastFrameTime,
                           !.game.lastFrameTime = currentTime]
             IN  IF (currentTime - m1.game.lastFrameTime) * m1.game.maxFPS < 1000
                 THEN m1
                 ELSE Try(UpdateManager([m1 EXCEPT !.game.updates = @ + 1], p),
                          LAMBDA m2 : [m2 EXCEPT !.game.renders = @ + 1])

Animate(gap, p) ==
    /\ steps < MaxSteps
    /\ steps' = steps + 1
    /\ Commit(AnimateFrame(Machine, gap, p), "animate", <<gap, p>>)

\* the visibilitychange handler
VisibilityChange(hidden) ==
    /\ steps < MaxSteps
    /\ steps' = steps + 1
    /\ Commit([Machine EXCEPT !.game.isPaused = hidden], "visibilitychange",
              hidden)

\* the script has loaded: GameState is the literal, and no World, no
\* ChunkManager and no pool exist
InitGame ==
    /\ variant \in {"pooled", "simple"}
    /\ terrainHook = "class"
    /\ renderDistance = RenderDistance
    /\ heap = <<>>
    /\ pool = <<>>
    /\ poolActive = <<>>
    /\ meshes = <<>>
    /\ chunks = <<>>
    /\ activeChunks = <<>>
    /\ generationQueue = <<>>
    /\ isGenerating = FALSE
    /\ scene = {}
    /\ occlusionMap = <<>>
    /\ steps = 0
    /\ unloaded = {}
    /\ requested = <<>>
    /\ served = <<>>
    /\ generatorRuns = <<>>
    /\ game = NewGame
    /\ lastOp = [op |-> "init", arg |-> Null, ret |-> Null, thrown |-> FALSE,
                 obs |-> NoObs]

\* init() is async and runs in three stretches.  The first, inside the
\* constructor of the game, ends at await this.initRenderer(): detectDevice()
\* has lowered maxFPS on a mobile device.
GameInitDevice(mobile) ==
    /\ lastOp.op = "init"
    /\ steps' = steps
    /\ Commit([Machine EXCEPT !.game.maxFPS = IF mobile THEN MobileMaxFPS
                                              ELSE @],
              "detectDevice", mobile)

\* the second stretch of init(), from the renderer to await this.initWorld():
\* new World(scene) constructs the ChunkManager, the pooled variant with its
\* pool pre-populated, and world.generate() runs to its end
GameInitWorld(heightAt, caves) ==
    /\ lastOp.op = "detectDevice"
    /\ steps' = steps
    /\ Commit(WorldGenerate(
                  [Machine EXCEPT
                      !.heap = IF variant = "pooled"
                               THEN [i \in 1..PoolInitialSize |-> PoolCreate]
                               ELSE <<>>,
                      !.pool = IF variant = "pooled"
                               THEN [i \in 1..PoolInitialSize |-> i]
                               ELSE <<>>],
                  heightAt, caves),
              "initWorld", caves)

\* the last stretch of init(): controls, HUD and listeners, then isRunning is
\* set and animate() is called, gap milliseconds after the script loaded,
\* which asks for the first frame; an error in init() is caught and the loop
\* is not started
GameInitStart(gap, p) ==
    /\ lastOp.op = "initWorld"
    /\ ~lastOp.thrown
    /\ steps' = steps
    /\ Commit(AnimateFrame([Machine EXCEPT !.game.isRunning = TRUE], gap, p),
              "start", gap)

\* init() comes first; the frames and the visibilitychange events it asks
\* for come after it
NextGame ==
    \/ \E mobile \in BOOLEAN : GameInitDevice(mobile)
    \/ \E heightAt \in SurfaceHeights, caves \in CaveChoices :
          GameInitWorld(heightAt, caves)
    \/ \E gap \in {0, 40}, p \in ViewerPositions : GameInitStart(gap, p)
    \/ /\ game.isRunning
       /\ \/ \E gap \in {5, 17, 40}, p \in ViewerPositions : Animate(gap, p)
          \/ \E hidden \in BOOLEAN : VisibilityChange(hidden)

SpecGame == InitGame /\ [][NextGame]_vars

\* C33: while the game is running and not paused, an animation frame that
\* arrives at least 1000 / maxFPS milliseconds after the previous frame runs
\* update() and then render().
C33_DueFrameUpdatesAndRenders ==
    [][(/\ lastOp'.op = "animate"
        /\ game.isRunning /\ ~game.isPaused
        /\ (game'.now - game.lastFrameTime) * game.maxFPS >= 1000)
       => /\ game'.updates = game.updates + 1
          /\ ~lastOp'.thrown => game'.renders = game.renders + 1]_vars

\* C34: every known chunk that holds a mesh has that mesh in the scene, and
\* every chunk mesh in the scene is the mesh of a known chunk.
C34_SceneMatchesKnownMeshes ==
    /\ \A o \in KnownObjs : heap[o].mesh # NoRef => heap[o].mesh \in scene
    /\ \A k \in scene : \E o \in KnownObjs : heap[o].mesh = k

\* C35: isGenerating is false whenever processGenerationQueue is not
\* executing, also after a call in which the generator or the remesh raised
\* an error.
C35_NotGeneratingBetweenCalls == ~isGenerating

----------------------------------------------------------------------------
(* A viewer that stays in chunk (0,0,0) while update() is called frame     *)
(* after frame, without end                                                *)

\* update(cameraPosition, camera) with the camera at p; the counter of
\* operations wraps around at 2, so that it tells one frame from the next;
\* update() has no return statement
Tick(p) ==
    /\ steps' = (steps + 1) % 2
    /\ Commit([UpdateManager(Machine, p) EXCEPT !.ret = Null], "update", p)

NextLive == \E p \in (0..(N - 1)) \X (0..(N - 1)) \X {1} : Tick(p)

\* the browser keeps delivering frames: a frame that can be processed
\* eventually is
SpecLive ==
    Init /\ [][NextLive]_vars /\ WF_steps(steps' = (steps + 1) % 2)

\* the chunk objects shifted off the generation queue so far
ServedSet == {served[i] : i \in DOMAIN served}

\* C36: if the viewer stays in one chunk and update() is called again and
\* again, the generation queue eventually is empty and every active chunk
\* has been dequeued for generation and meshed.
C36_QueueEventuallyDrained ==
    <>(/\ Len(generationQueue) = 0
       /\ Len(activeChunks) > 0
       /\ \A i \in DOMAIN activeChunks :
              MapGet(chunks, activeChunks[i]) \in ServedSet)

(***************************************************************************)
(* Known chunks and the active set                                         *)

\* C37: after every update(), every chunk of the known map is in the active
\* set: a chunk created outside the render window by getBlockAt, setBlockAt
\* or getChunkByIndex does not stay known.
C37_KnownChunksAreActive ==
    (lastOp.op = "update" /\ ~lastOp.thrown)
        => \A i \in DOMAIN chunks : chunks[i].id \in ActiveSet

(***************************************************************************)
(* Blocks written and read back at world coordinates on both sides of the  *)
(* origin                                                                  *)

NextEdit ==
    \E w \in {-N - 1, -1, 0, N + 1} \X {-1, 1} \X {1} :
        \/ \E t \in EditTypes : SetBlockAt(w, t)
        \/ GetBlockAt(w)

SpecEdit == InitWorld /\ [][NextEdit]_vars

\* the chunk index and the local coordinate the claim gives for w
ChunkOf(w) == <<FloorDiv(w[1], N), FloorDiv(w[2], N), FloorDiv(w[3], N)>>

EuclidLocal(w) ==
    <<w[1] - FloorDiv(w[1], N) * N, w[2] - FloorDiv(w[2], N) * N,
      w[3] - FloorDiv(w[3], N) * N>>

\* C38: for every integer world coordinate w, negative ones included, and
\* every block type t, setBlockAt(w, t) returns true and stores t at local
\* coordinate w - floor(w/N)*N of chunk floor(w/N), and a getBlockAt(w) that
\* follows returns t.
C38_SetThenGetAnywhere ==
    [][/\ lastOp'.op = "setBlockAt"
           => /\ ~lastOp'.thrown
              /\ lastOp'.ret = TRUE
              /\ LET o == MapGet(chunks', ChunkOf(lastOp'.arg[1]))
                     l == EuclidLocal(lastOp'.arg[1])
                 IN  /\ o # NoRef
                     /\ Cell(heap'[o].voxels, VoxelIndex(l[1], l[2], l[3]))
                            = lastOp'.arg[2]
       /\ (lastOp.op = "setBlockAt" /\ lastOp'.op = "getBlockAt"
              /\ lastOp'.arg = lastOp.arg[1])
           => /\ ~lastOp'.thrown
              /\ lastOp'.ret = lastOp.arg[2]]_vars

(***************************************************************************)
(* Clean chunks and their geometry: blocks are placed on the faces of      *)
(* chunk (0,0,0), the viewer moves between chunk (0,0,0) and chunk         *)
(* (1,0,0), which loads and unloads the neighbors of both, and dispose()   *)
(* discards every chunk and the generation queue                           *)

NextUnload ==
    /\ steps < MaxCalls
    /\ steps' = steps + 1
    /\ \/ \E p \in ViewerPositions :
              Commit(UpdateManager(Machine, p), "update", p)
       \/ \E w \in {<<0, 1, 1>>, <<N - 1, 1, 1>>}, t \in EditTypes :
              Commit(WorldSetBlockAt(Machine, w, t), "setBlockAt", <<w, t>>)
       \/ Commit(ManagerDispose(Machine), "dispose", Null)

SpecUnload == InitWorld /\ [][NextUnload]_vars

\* whether meshing chunk object o now, with its voxels and the chunks its
\* links point to, completes
RemeshCompletes(o) ==
    IF variant = "pooled" THEN heap[o].voxels # NoVoxels
    ELSE ~NaiveThrows(heap, heap[o])

\* the quads meshing chunk object o now would produce
RemeshedGeometry(o) ==
    IF variant = "pooled" THEN GreedyMesh(heap[o].voxels)
    ELSE NaiveFaces(heap, heap[o])

\* C39: whenever a known chunk has needsUpdate false, its geometry is what
\* meshing it now would produce from its voxels and the voxels of its linked
\* neighbors: no operation changes what the mesh should be without marking
\* the chunk dirty.
C39_CleanChunkGeometryIsCurrent ==
    \A o \in KnownObjs :
        ~heap[o].needsUpdate
            => /\ RemeshCompletes(o)
               /\ heap[o].geometry = RemeshedGeometry(o)

====
